---- MODULE Spec2Model ----
(***************************************************************************)
(* The ADB execution and input-validation layer of the React Native MCP    *)
(* server: the input validators, ADBClient.execute and the tool handlers   *)
(* built on it.                                                            *)
(*                                                                         *)
(* A JavaScript string is modelled as the sequence of its characters, each *)
(* a one-character string, so that trim, split, includes, toLowerCase and  *)
(* the regular expressions of the source are computed character by         *)
(* character.  A JavaScript number is a record: [t |-> "int", v |-> n] for *)
(* an integer, [t |-> "nonint", v |-> text] for a number that              *)
(* Number.isInteger rejects (1.5, NaN, Infinity).                          *)
(***************************************************************************)
EXTENDS Integers, Sequences, FiniteSets, TLC

VARIABLES
    vcall,      \* one call of a validator or of sanitizeForShell: its input and result
    adbPath,    \* ADBClient.adbPath of the singleton client
    calls,      \* the calls of ADBClient.execute made for the current request, in order
    tool,       \* the tool handler serving the current request
    cachedADBPath,  \* the module variable of the path resolver
    machine,    \* what the resolver finds on the machine: PATH, environment, files
    resolves,   \* the calls of resolveADBPath and clearADBPathCache so far, in order
    stream,     \* the child process, buffer and deliveries of one executeStream call
    instance    \* ADBClient.instance: 0 for null, else the number of the client object

pathVars == <<cachedADBPath, machine, resolves, instance>>
hostVars == <<pathVars, stream>>
vars == <<vcall, adbPath, calls, tool, cachedADBPath, machine, resolves, stream, instance>>
adbVars == <<adbPath, calls, tool, hostVars>>

(***************************************************************************)
(* JavaScript values                                                       *)
(***************************************************************************)

\* The value undefined where a string is expected (an optional field left out).
Undefined == <<"undefined">>

\* The grave accent (backquote) character, which a TLA+ string cannot hold.
Grave == "grave"

JsInt(n) == [t |-> "int", v |-> n]
JsNonInt(text) == [t |-> "nonint", v |-> text]

\* What a call yields: a returned value or a thrown error.
Returns(v) == [ok |-> TRUE, value |-> v]
Throws(err, msg) == [ok |-> FALSE, error |-> err, message |-> msg]

(***************************************************************************)
(* String primitives of the runtime                                        *)
(***************************************************************************)

Whitespace == {" ", "\t", "\n", "\r"}
LineTerminators == {"\n", "\r"}

UpperLetters ==
    <<"A","B","C","D","E","F","G","H","I","J","K","L","M",
      "N","O","P","Q","R","S","T","U","V","W","X","Y","Z">>
LowerLetters ==
    <<"a","b","c","d","e","f","g","h","i","j","k","l","m",
      "n","o","p","q","r","s","t","u","v","w","x","y","z">>
Letters == {UpperLetters[i] : i \in DOMAIN UpperLetters} \cup {LowerLetters[i] : i \in DOMAIN LowerLetters}
Digits == {"0","1","2","3","4","5","6","7","8","9"}
WordChars == Letters \cup Digits \cup {"_"}

RECURSIVE TrimStart(_)
TrimStart(s) ==
    IF s # <<>> /\ Head(s) \in Whitespace THEN TrimStart(Tail(s)) ELSE s

RECURSIVE TrimEnd(_)
TrimEnd(s) ==
    IF s # <<>> /\ s[Len(s)] \in Whitespace THEN TrimEnd(SubSeq(s, 1, Len(s) - 1)) ELSE s

trim(s) == TrimEnd(TrimStart(s))

toLowerCaseChar(c) ==
    IF \E i \in DOMAIN UpperLetters : UpperLetters[i] = c
    THEN LowerLetters[CHOOSE i \in DOMAIN UpperLetters : UpperLetters[i] = c]
    ELSE c

toLowerCase(s) == [i \in 1..Len(s) |-> toLowerCaseChar(s[i])]

\* lit occurs in s at position i
LitAt(s, i, lit) ==
    /\ i >= 1
    /\ i + Len(lit) - 1 <= Len(s)
    /\ SubSeq(s, i, i + Len(lit) - 1) = lit

includes(s, lit) == \E i \in 1..(Len(s) + 1) : LitAt(s, i, lit)

startsWith(s, lit) == LitAt(s, 1, lit)

\* s.split(sep) for a one-character separator
RECURSIVE split(_, _)
split(s, sep) ==
    IF \E i \in 1..Len(s) : s[i] = sep
    THEN LET i == CHOOSE k \in 1..Len(s) : s[k] = sep /\ \A j \in 1..(k - 1) : s[j] # sep
         IN  <<SubSeq(s, 1, i - 1)>> \o split(SubSeq(s, i + 1, Len(s)), sep)
    ELSE <<s>>

\* s.replace(/ch/g, repl) for a one-character pattern
RECURSIVE replaceAll(_, _, _)
replaceAll(s, ch, repl) ==
    IF s = <<>> THEN <<>>
    ELSE (IF Head(s) = ch THEN repl ELSE <<Head(s)>>) \o replaceAll(Tail(s), ch, repl)

\* parts.join(sep)
RECURSIVE join(_, _)
join(parts, sep) ==
    IF parts = <<>> THEN <<>>
    ELSE IF Len(parts) = 1 THEN parts[1]
    ELSE parts[1] \o sep \o join(Tail(parts), sep)

\* The positions a regular expression can stand at after \s* (WsStar) or \s+
\* (WsPlus) has matched from position i of s.
WsStar(s, i) == {j \in i..(Len(s) + 1) : \A k \in i..(j - 1) : s[k] \in Whitespace}
WsPlus(s, i) == WsStar(s, i) \ {i}

\* The positions after .* has matched from position i (. matches no line terminator).
DotStar(s, i) == {j \in i..(Len(s) + 1) : \A k \in i..(j - 1) : s[k] \notin LineTerminators}

\* All strings over alphabet A of length at most n.
StringsUpTo(A, n) == UNION {[1..k -> A] : k \in 0..n}

(***************************************************************************)
(* Input validators (tools/adb/utils/validators)                           *)
(***************************************************************************)

javaKeywords == {
    <<"a","b","s","t","r","a","c","t">>, <<"a","s","s","e","r","t">>,
    <<"b","o","o","l","e","a","n">>, <<"b","r","e","a","k">>, <<"b","y","t","e">>,
    <<"c","a","s","e">>, <<"c","a","t","c","h">>, <<"c","h","a","r">>, <<"c","l","a","s","s">>,
    <<"c","o","n","s","t">>, <<"c","o","n","t","i","n","u","e">>,
    <<"d","e","f","a","u","l","t">>, <<"d","o">>, <<"d","o","u","b","l","e">>,
    <<"e","l","s","e">>, <<"e","n","u","m">>, <<"e","x","t","e","n","d","s">>,
    <<"f","i","n","a","l">>, <<"f","i","n","a","l","l","y">>, <<"f","l","o","a","t">>,
    <<"f","o","r">>, <<"g","o","t","o">>, <<"i","f">>,
    <<"i","m","p","l","e","m","e","n","t","s">>, <<"i","m","p","o","r","t">>,
    <<"i","n","s","t","a","n","c","e","o","f">>, <<"i","n","t">>,
    <<"i","n","t","e","r","f","a","c","e">>, <<"l","o","n","g">>, <<"n","a","t","i","v","e">>,
    <<"n","e","w">>, <<"p","a","c","k","a","g","e">>, <<"p","r","i","v","a","t","e">>,
    <<"p","r","o","t","e","c","t","e","d">>, <<"p","u","b","l","i","c">>,
    <<"r","e","t","u","r","n">>, <<"s","h","o","r","t">>, <<"s","t","a","t","i","c">>,
    <<"s","t","r","i","c","t","f","p">>, <<"s","u","p","e","r">>, <<"s","w","i","t","c","h">>,
    <<"s","y","n","c","h","r","o","n","i","z","e","d">>, <<"t","h","i","s">>,
    <<"t","h","r","o","w">>, <<"t","h","r","o","w","s">>,
    <<"t","r","a","n","s","i","e","n","t">>, <<"t","r","y">>, <<"v","o","i","d">>,
    <<"v","o","l","a","t","i","l","e">>, <<"w","h","i","l","e">>
    }

\* /^[a-zA-Z][a-zA-Z0-9_]*(\.[a-zA-Z][a-zA-Z0-9_]*)+$/ matched from position i,
\* nseg segments already matched: a segment, then either the end of the input
\* (with at least two segments in all) or a dot and the rest.
RECURSIVE PackageNameRegexFrom(_, _, _)
PackageNameRegexFrom(s, i, nseg) ==
    /\ i <= Len(s)
    /\ s[i] \in Letters
    /\ \E j \in (i + 1)..(Len(s) + 1) :
          /\ \A k \in (i + 1)..(j - 1) : s[k] \in WordChars
          /\ \/ j = Len(s) + 1 /\ nseg + 1 >= 2
             \/ j <= Len(s) /\ s[j] = "." /\ PackageNameRegexFrom(s, j + 1, nseg + 1)

\* Mutant: the repeated group must match twice (three segments).
packageNameRegexThreeSegments(s) == PackageNameRegexFrom(s, 1, -1)

packageNameRegex(s) == PackageNameRegexFrom(s, 1, 0)

validatePackageName(packageName) ==
    IF packageName = Undefined \/ packageName = <<>>
    THEN Throws("ValidationError", "Package name must be a non-empty string")
    ELSE IF ~packageNameRegex(packageName)
    THEN Throws("ValidationError", "Invalid package name format")
    ELSE LET segments == split(packageName, ".")
         IN  IF \E i \in 1..Len(segments) : toLowerCase(segments[i]) \in javaKeywords
             THEN Throws("ValidationError", "Package name segment is a reserved Java keyword")
             ELSE Returns(packageName)

\* the character class of dangerousChars: ; & | grave $ ( ) { } [ ] < > ' " and backslash
dangerousCharsDeviceId ==
    {";", "&", "|", Grave, "$", "(", ")", "{", "}", "[", "]", "<", ">", "'", "\"", "\\"}

validateDeviceId(deviceId) ==
    IF deviceId = Undefined \/ deviceId = <<>>
    THEN Throws("ValidationError", "Device ID must be a non-empty string")
    ELSE LET trimmed == trim(deviceId)
         IN  IF Len(trimmed) = 0
             THEN Throws("ValidationError", "Device ID cannot be empty or only whitespace")
             ELSE IF \E i \in 1..Len(trimmed) : trimmed[i] \in dangerousCharsDeviceId
             THEN Throws("ValidationError", "Device ID contains invalid characters")
             ELSE Returns(trimmed)

\* Mutant: the character class of validateFilePath without the pipe.
dangerousCharsFilePathNoPipe ==
    {";", "&", Grave, "$", "(", ")", "{", "}", "[", "]", "<", ">", "'", "\""}

\* the character class of dangerousChars: ; & | grave $ ( ) { } [ ] < > ' "
dangerousCharsFilePath ==
    {";", "&", "|", Grave, "$", "(", ")", "{", "}", "[", "]", "<", ">", "'", "\""}

validateFilePath(filePath, allowAbsolute) ==
    IF filePath = Undefined \/ filePath = <<>>
    THEN Throws("ValidationError", "File path must be a non-empty string")
    ELSE LET trimmed == trim(filePath)
         IN  IF Len(trimmed) = 0
             THEN Throws("ValidationError", "File path cannot be empty or only whitespace")
             ELSE IF \E i \in 1..Len(trimmed) : trimmed[i] \in dangerousCharsFilePath
             THEN Throws("ValidationError", "File path contains invalid characters")
             ELSE IF includes(trimmed, <<".", ".">>)
             THEN Throws("ValidationError", "File path cannot contain parent directory references (..)")
             ELSE IF /\ ~allowAbsolute
                     /\ \/ startsWith(trimmed, <<"/">>)
                        \/ Len(trimmed) >= 2 /\ trimmed[1] \in Letters /\ trimmed[2] = ":"
             THEN Throws("ValidationError", "Absolute paths are not allowed")
             ELSE Returns(trimmed)

PortMin == 1
PortMax == 65535

\* Mutant: the bounds themselves are rejected.
validatePortExclusive(port) ==
    IF port.t # "int"
    THEN Throws("ValidationError", "Port must be an integer")
    ELSE IF port.v <= PortMin \/ port.v >= PortMax
    THEN Throws("ValidationError", "Port must be between 1 and 65535")
    ELSE Returns(port)

validatePort(port) ==
    IF port.t # "int"
    THEN Throws("ValidationError", "Port must be an integer")
    ELSE IF port.v < PortMin \/ port.v > PortMax
    THEN Throws("ValidationError", "Port must be between 1 and 65535")
    ELSE Returns(port)

DefaultMaxTimeout == 300000

validateTimeout(timeout, maxTimeout) ==
    IF timeout.t # "int"
    THEN Throws("ValidationError", "Timeout must be an integer")
    ELSE IF timeout.v < 0
    THEN Throws("ValidationError", "Timeout cannot be negative")
    ELSE IF timeout.v > maxTimeout
    THEN Throws("ValidationError", "Timeout cannot exceed maxTimeout")
    ELSE Returns(timeout)

\* s.split(/\s+/)
RECURSIVE splitWs(_)
splitWs(s) ==
    IF \E i \in 1..Len(s) : s[i] \in Whitespace
    THEN LET i == CHOOSE k \in 1..Len(s) :
                      s[k] \in Whitespace /\ \A j \in 1..(k - 1) : s[j] \notin Whitespace
             j == CHOOSE k \in (i + 1)..(Len(s) + 1) :
                      /\ \A m \in i..(k - 1) : s[m] \in Whitespace
                      /\ (k <= Len(s) => s[k] \notin Whitespace)
         IN  <<SubSeq(s, 1, i - 1)>> \o splitWs(SubSeq(s, j, Len(s)))
    ELSE <<s>>

\* The dangerousPatterns of validateShellCommand, each tested against the
\* command; the i flag is matching on the lower-cased command.
\*   /;\s*rm\s+-rf/i
patternRmRf(c) ==
    LET s == toLowerCase(c)
    IN  \E i \in 1..Len(s) :
            /\ s[i] = ";"
            /\ \E j \in WsStar(s, i + 1) :
                  /\ LitAt(s, j, <<"r","m">>)
                  /\ \E k \in WsPlus(s, j + 2) : LitAt(s, k, <<"-","r","f">>)

\*   /;\s*dd\s+/i
patternDd(c) ==
    LET s == toLowerCase(c)
    IN  \E i \in 1..Len(s) :
            /\ s[i] = ";"
            /\ \E j \in WsStar(s, i + 1) :
                  /\ LitAt(s, j, <<"d","d">>)
                  /\ WsPlus(s, j + 2) # {}

\*   />\s*\/dev\//i
patternDev(c) ==
    LET s == toLowerCase(c)
    IN  \E i \in 1..Len(s) :
            /\ s[i] = ">"
            /\ \E j \in WsStar(s, i + 1) : LitAt(s, j, <<"/","d","e","v","/">>)

\*   /;\s*mkfs/i
patternMkfs(c) ==
    LET s == toLowerCase(c)
    IN  \E i \in 1..Len(s) :
            /\ s[i] = ";"
            /\ \E j \in WsStar(s, i + 1) : LitAt(s, j, <<"m","k","f","s">>)

\*   /;\s*:(){ :|:& };:/i   the | is an alternation: either  ;\s*:(){ :  (an empty
\*   group, then the literal "{ :") or the literal  :& };:
patternForkBomb(c) ==
    LET s == toLowerCase(c)
    IN  \/ \E i \in 1..Len(s) :
              /\ s[i] = ";"
              /\ \E j \in WsStar(s, i + 1) : LitAt(s, j, <<":","{"," ",":">>)
        \/ includes(s, <<":","&"," ","}",";",":">>)

\*   /\$\(.*\)/i
patternDollarParen(c) ==
    LET s == toLowerCase(c)
    IN  \E i \in 1..Len(s) :
            /\ LitAt(s, i, <<"$","(">>)
            /\ \E j \in DotStar(s, i + 2) : LitAt(s, j, <<")">>)

\*   /G.*G/i  with G the grave accent
patternBackticks(c) ==
    LET s == toLowerCase(c)
    IN  \E i \in 1..Len(s) :
            /\ s[i] = Grave
            /\ \E j \in DotStar(s, i + 1) : LitAt(s, j, <<Grave>>)

dangerousPatterns(c) ==
    \/ patternRmRf(c)
    \/ patternDd(c)
    \/ patternDev(c)
    \/ patternMkfs(c)
    \/ patternForkBomb(c)
    \/ patternDollarParen(c)
    \/ patternBackticks(c)

\* allowedCommands is [given |-> FALSE] when the argument is left out, else
\* [given |-> TRUE, list |-> the commands].
validateShellCommand(command, allowedCommands) ==
    IF command = Undefined \/ command = <<>>
    THEN Throws("ValidationError", "Shell command must be a non-empty string")
    ELSE LET trimmed == trim(command)
         IN  IF Len(trimmed) = 0
             THEN Throws("ValidationError", "Shell command cannot be empty or only whitespace")
             ELSE LET baseCommand == splitWs(trimmed)[1]
                  IN  IF /\ allowedCommands.given
                         /\ Len(allowedCommands.list) > 0
                         /\ ~\E i \in 1..Len(allowedCommands.list) :
                                allowedCommands.list[i] = baseCommand
                      THEN Throws("ValidationError", "Command is not in the allowed list")
                      ELSE IF dangerousPatterns(trimmed)
                      THEN Throws("ValidationError",
                                  "Shell command contains potentially dangerous patterns")
                      ELSE Returns(trimmed)

\* Mutant: the backslash is escaped last, after the other replacements added theirs.
sanitizeForShellBackslashLast(input) ==
    LET s2 == replaceAll(input, "\"", <<"\\", "\"">>)
        s3 == replaceAll(s2, "'", <<"\\", "'">>)
        s4 == replaceAll(s3, "$", <<"\\", "$">>)
        s5 == replaceAll(s4, Grave, <<"\\", Grave>>)
        s6 == replaceAll(s5, "!", <<"\\", "!">>)
        s7 == replaceAll(s6, "\n", <<"\\", "n">>)
        s8 == replaceAll(s7, "\r", <<"\\", "r">>)
    IN  replaceAll(s8, "\\", <<"\\", "\\">>)

sanitizeForShell(input) ==
    LET s1 == replaceAll(input, "\\", <<"\\", "\\">>)
        s2 == replaceAll(s1, "\"", <<"\\", "\"">>)
        s3 == replaceAll(s2, "'", <<"\\", "'">>)
        s4 == replaceAll(s3, "$", <<"\\", "$">>)
        s5 == replaceAll(s4, Grave, <<"\\", Grave>>)
        s6 == replaceAll(s5, "!", <<"\\", "!">>)
        s7 == replaceAll(s6, "\n", <<"\\", "n">>)
    IN  replaceAll(s7, "\r", <<"\\", "r">>)

(***************************************************************************)
(* ADBClient.execute (tools/adb/core/adb-client)                           *)
(*                                                                         *)
(* A call of execute is a record of the sequence calls.  Its synchronous   *)
(* start validates the options and spawns the adb subprocess through       *)
(* child_process.exec; the promise of exec settles when the subprocess     *)
(* exits or when the runtime's timer kills it; the continuation of execute *)
(* then returns a result or throws.                                        *)
(***************************************************************************)

\* A call not made yet has no result.
NoResult == [ok |-> FALSE, error |-> "pending", message |-> ""]
VCall(fn, arg, opt) == [fn |-> fn, arg |-> arg, opt |-> opt, done |-> FALSE, result |-> NoResult]
VDone(r) == [vcall EXCEPT !.done = TRUE, !.result = r]

JsUndef == [t |-> "undefined"]
JsBool(b) == [t |-> "bool", v |-> b]

\* a string used as a condition
Truthy(s) == s # Undefined /\ s # <<>>
OrEmpty(s) == IF Truthy(s) THEN s ELSE <<>>

DEFAULT_TIMEOUT == 30000

ResolvedPath == <<"/","u","s","r","/","b","i","n","/","a","d","b">>

S_dash_s == <<"-","s">>
S_device_not_found == <<"d","e","v","i","c","e"," ","n","o","t"," ","f","o","u","n","d">>
S_device_offline == <<"d","e","v","i","c","e"," ","o","f","f","l","i","n","e">>

\* Mutant: the device id goes into the command unvalidated.
ExecutePrepareNoDeviceCheck(path, args, options) ==
    LET timeout == IF options.timeout = JsUndef THEN JsInt(DEFAULT_TIMEOUT) ELSE options.timeout
        vt == validateTimeout(timeout, DefaultMaxTimeout)
    IN  IF ~vt.ok
        THEN [ok |-> FALSE, thrown |-> vt]
        ELSE LET commandArgs == IF Truthy(options.device_id)
                                THEN <<S_dash_s, options.device_id>> \o args
                                ELSE args
             IN  [ok |-> TRUE,
                  validatedTimeout |-> vt.value,
                  throw_on_error |-> IF options.throw_on_error = JsUndef
                                     THEN TRUE ELSE options.throw_on_error.v,
                  commandArgs |-> commandArgs,
                  command |-> <<"\"">> \o path \o <<"\"", " ">> \o join(commandArgs, <<" ">>)]

\* The synchronous start of execute, up to the call of execAsync: the options
\* with their defaults, validateTimeout, validateDeviceId, the command.
ExecutePrepare(path, args, options) ==
    LET device_id == options.device_id
        timeout == IF options.timeout = JsUndef THEN JsInt(DEFAULT_TIMEOUT) ELSE options.timeout
        throw_on_error == IF options.throw_on_error = JsUndef
                          THEN TRUE ELSE options.throw_on_error.v
        vt == validateTimeout(timeout, DefaultMaxTimeout)
        vd == validateDeviceId(device_id)
    IN  IF ~vt.ok
        THEN [ok |-> FALSE, thrown |-> vt]
        ELSE IF Truthy(device_id) /\ ~vd.ok
        THEN [ok |-> FALSE, thrown |-> vd]
        ELSE LET commandArgs == IF Truthy(device_id)
                                THEN <<S_dash_s, vd.value>> \o args
                                ELSE args
             IN  [ok |-> TRUE,
                  validatedTimeout |-> vt.value,
                  throw_on_error |-> throw_on_error,
                  commandArgs |-> commandArgs,
                  command |-> <<"\"">> \o path \o <<"\"", " ">> \o join(commandArgs, <<" ">>)]

\* Mutant: the stderr classification runs before the timeout test.
ExecuteSettleOutcomeClassifyFirst(prep, settled, duration_ms) ==
    IF ~settled.rejected
    THEN Returns([success |-> TRUE, stdout |-> trim(settled.stdout),
                  stderr |-> trim(settled.stderr), exit_code |-> JsInt(0),
                  duration_ms |-> duration_ms])
    ELSE LET result == [success |-> FALSE,
                        stdout |-> trim(OrEmpty(settled.stdout)),
                        stderr |-> trim(OrEmpty(settled.stderr)),
                        exit_code |-> IF settled.code = JsUndef \/ settled.code = JsInt(0)
                                      THEN JsInt(1) ELSE settled.code,
                        duration_ms |-> duration_ms]
             stderr == toLowerCase(result.stderr)
         IN  IF includes(stderr, S_device_not_found)
             THEN Throws("DeviceNotFoundError", "Device not found")
             ELSE IF includes(stderr, S_device_offline)
             THEN Throws("DeviceOfflineError", "Device offline")
             ELSE IF settled.killed = JsBool(TRUE)
             THEN Throws("TimeoutError", "ADB command timed out")
             ELSE IF prep.throw_on_error
             THEN Throws("ADBError", "ADB command failed")
             ELSE Returns(result)

\* Mutant: throw_on_error = false also silences the device errors.
ExecuteSettleOutcomeQuiet(prep, settled, duration_ms) ==
    IF ~settled.rejected
    THEN Returns([success |-> TRUE, stdout |-> trim(settled.stdout),
                  stderr |-> trim(settled.stderr), exit_code |-> JsInt(0),
                  duration_ms |-> duration_ms])
    ELSE IF settled.killed = JsBool(TRUE)
    THEN Throws("TimeoutError", "ADB command timed out")
    ELSE LET result == [success |-> FALSE,
                        stdout |-> trim(OrEmpty(settled.stdout)),
                        stderr |-> trim(OrEmpty(settled.stderr)),
                        exit_code |-> IF settled.code = JsUndef \/ settled.code = JsInt(0)
                                      THEN JsInt(1) ELSE settled.code,
                        duration_ms |-> duration_ms]
             stderr == toLowerCase(result.stderr)
         IN  IF ~prep.throw_on_error
             THEN Returns(result)
             ELSE IF includes(stderr, S_device_not_found)
             THEN Throws("DeviceNotFoundError", "Device not found")
             ELSE IF includes(stderr, S_device_offline)
             THEN Throws("DeviceOfflineError", "Device offline")
             ELSE Throws("ADBError", "ADB command failed")

\* The continuation of execute once the promise of execAsync has settled:
\* the result on success, else the catch block.  settled is what exec gave:
\* [rejected |-> FALSE, stdout, stderr] or the error object
\* [rejected |-> TRUE, killed, code, stdout, stderr].
ExecuteSettleOutcome(prep, settled, duration_ms) ==
    IF ~settled.rejected
    THEN Returns([success |-> TRUE, stdout |-> trim(settled.stdout),
                  stderr |-> trim(settled.stderr), exit_code |-> JsInt(0),
                  duration_ms |-> duration_ms])
    ELSE IF settled.killed = JsBool(TRUE)
    THEN Throws("TimeoutError", "ADB command timed out")
    ELSE LET result == [success |-> FALSE,
                        stdout |-> trim(OrEmpty(settled.stdout)),
                        stderr |-> trim(OrEmpty(settled.stderr)),
                        exit_code |-> IF settled.code = JsUndef \/ settled.code = JsInt(0)
                                      THEN JsInt(1) ELSE settled.code,
                        duration_ms |-> duration_ms]
             stderr == toLowerCase(result.stderr)
         IN  IF includes(stderr, S_device_not_found)
             THEN Throws("DeviceNotFoundError", "Device not found")
             ELSE IF includes(stderr, S_device_offline)
             THEN Throws("DeviceOfflineError", "Device offline")
             ELSE IF prep.throw_on_error
             THEN Throws("ADBError", "ADB command failed")
             ELSE Returns(result)

\* Whether exec arms its kill timer: the runtime does for a timeout above 0.
TimerArmed(validatedTimeout) == validatedTimeout.v > 0

ChildNone == [state |-> "none"]
ChildRunning == [state |-> "running"]
ChildSettled(r) == [state |-> "settled", result |-> r]

\* execute(args, options) called from site: the synchronous start.  base is
\* the log of the earlier calls.
ExecuteRecordOf(path, site, args, options) ==
    LET prep == ExecutePrepare(path, args, options)
    IN  [site |-> site, args |-> args, options |-> options, prep |-> prep,
         pc |-> IF prep.ok THEN "awaiting" ELSE "done",
         child |-> IF prep.ok THEN ChildRunning ELSE ChildNone,
         spawned |-> IF prep.ok THEN 1 ELSE 0,
         outcome |-> IF prep.ok THEN NoResult ELSE prep.thrown]
ExecuteRecord(site, args, options) == ExecuteRecordOf(adbPath, site, args, options)
ExecuteStartOn(base, site, args, options) ==
    calls' = Append(base, ExecuteRecord(site, args, options))
ExecuteStart(site, args, options) == ExecuteStartOn(calls, site, args, options)

\* A call whose outcome the caller has taken stays in calls as a log entry:
\* what was issued and how it ended.
Summary(o) == [failed |-> ~(o.ok /\ o.value.success)]
Reaped(c) ==
    [c EXCEPT !.pc = "consumed", !.child = [state |-> "reaped"], !.outcome = Summary(c.outcome)]
ConsumeAt(i) == [calls EXCEPT ![i] = Reaped(calls[i])]
Consume == ConsumeAt(Len(calls))

\* What the subprocess can leave behind: the text adb prints for a command,
\* the messages it writes to stderr, its exit codes.
MaxDuration == 1

S_devices == <<"d", "e", "v", "i", "c", "e", "s">>
S_wait_for_device == <<"w", "a", "i", "t", "-", "f", "o", "r", "-", "d", "e", "v", "i", "c", "e">>

\* the adb command of the arguments, past a leading -s <serial>
Subcommand(commandArgs) ==
    IF Len(commandArgs) >= 3 /\ commandArgs[1] = S_dash_s THEN SubSeq(commandArgs, 3, Len(commandArgs))
    ELSE commandArgs

DeviceListings ==
    { <<"L", "i", "s", "t", " ", "o", "f", " ", "d", "e", "v", "i", "c", "e", "s", " ", "a", "t", "t", "a", "c", "h", "e", "d", "\n", "\n">>,
      <<"L", "i", "s", "t", " ", "o", "f", " ", "d", "e", "v", "i", "c", "e", "s", " ", "a", "t", "t", "a", "c", "h", "e", "d", "\n", "e", "1", " ", " ", "d", "e", "v", "i", "c", "e", " ", "p", "r", "o", "d", "u", "c", "t", ":", "x", " ", "m", "o", "d", "e", "l", ":", "y", " ", "d", "e", "v", "i", "c", "e", ":", "z", "\n">>,
      <<"L", "i", "s", "t", " ", "o", "f", " ", "d", "e", "v", "i", "c", "e", "s", " ", "a", "t", "t", "a", "c", "h", "e", "d", "\n", "e", "1", " ", "o", "f", "f", "l", "i", "n", "e", "\n", "e", ";", " ", "d", "e", "v", "i", "c", "e", "\n", "\n">> }

\* what adb prints on stdout for the command of a call
StdoutFor(c) ==
    LET sub == Subcommand(c.prep.commandArgs)
        is(k, word) == Len(sub) >= k /\ sub[k] = word
    IN  IF is(1, S_devices) THEN DeviceListings
        ELSE IF is(1, <<"i", "n", "s", "t", "a", "l", "l">>)
        THEN {<<>>, <<"S", "u", "c", "c", "e", "s", "s", "\n">>, <<"F", "a", "i", "l", "u", "r", "e", " ", "[", "I", "N", "S", "T", "A", "L", "L", "_", "F", "A", "I", "L", "E", "D", "_", "A", "L", "R", "E", "A", "D", "Y", "_", "E", "X", "I", "S", "T", "S", "]", "\n">>}
        ELSE IF is(1, <<"u", "n", "i", "n", "s", "t", "a", "l", "l">>)
        THEN {<<>>, <<"S", "u", "c", "c", "e", "s", "s", "\n">>, <<"F", "a", "i", "l", "u", "r", "e", " ", "[", "D", "E", "L", "E", "T", "E", "_", "F", "A", "I", "L", "E", "D", "_", "I", "N", "T", "E", "R", "N", "A", "L", "_", "E", "R", "R", "O", "R", "]", "\n">>,
              <<"F", "a", "i", "l", "u", "r", "e", " ", "[", "n", "o", "t", " ", "i", "n", "s", "t", "a", "l", "l", "e", "d", "]", " ", "D", "E", "L", "E", "T", "E", "_", "F", "A", "I", "L", "E", "D", "_", "I", "N", "T", "E", "R", "N", "A", "L", "_", "E", "R", "R", "O", "R", "\n">>,
              <<"f", "a", "i", "l", "e", "d", "\n">>, <<"U", "n", "k", "n", "o", "w", "n", " ", "p", "a", "c", "k", "a", "g", "e", "\n">>}
        ELSE IF is(1, <<"a", "a", "p", "t">>)
        THEN {<<>>, <<"p", "a", "c", "k", "a", "g", "e", ":", " ", "n", "a", "m", "e", "=", "'", "d", ".", "o", "'", " ", "v", "e", "r", "s", "i", "o", "n", "C", "o", "d", "e", "=", "'", "1", "'", "\n">>}
        ELSE IF is(1, <<"c", "o", "n", "n", "e", "c", "t">>)
        THEN {<<>>, <<"c", "o", "n", "n", "e", "c", "t", "e", "d", " ", "t", "o", " ", "h", "\n">>, <<"a", "l", "r", "e", "a", "d", "y", " ", "c", "o", "n", "n", "e", "c", "t", "e", "d", " ", "t", "o", " ", "h", "\n">>, <<"f", "a", "i", "l", "e", "d", " ", "t", "o", " ", "c", "o", "n", "n", "e", "c", "t", " ", "t", "o", " ", "h", "\n">>,
              <<"C", "a", "n", "n", "o", "t", " ", "C", "o", "n", "n", "e", "c", "t", " ", "t", "o", " ", "h", "\n">>, <<"o", "f", "f", "l", "i", "n", "e", "\n">>}
        ELSE IF is(1, <<"s", "h", "e", "l", "l">>) /\ is(2, <<"p", "m">>)
        THEN {<<>>, <<"p", "a", "c", "k", "a", "g", "e", ":", "d", ".", "o", "\n", "p", "a", "c", "k", "a", "g", "e", ":", "a", ".", "b", "\n">>, <<"p", "a", "c", "k", "a", "g", "e", ":", "a", ".", "b", "\n", "p", "a", "c", "k", "a", "g", "e", ":", "\n">>}
        ELSE IF is(1, <<"s", "h", "e", "l", "l">>) /\ is(2, <<"d", "u", "m", "p", "s", "y", "s">>) /\ is(3, <<"p", "a", "c", "k", "a", "g", "e">>)
        THEN {<<>>, <<"U", "n", "a", "b", "l", "e", " ", "t", "o", " ", "f", "i", "n", "d", " ", "p", "a", "c", "k", "a", "g", "e", ":", " ", "d", ".", "o", "\n">>,
              <<" ", " ", "v", "e", "r", "s", "i", "o", "n", "N", "a", "m", "e", "=", "1", ".", "0", "\n", " ", " ", "c", "o", "d", "e", "P", "a", "t", "h", "=", "/", "s", "y", "s", "t", "e", "m", "/", "d", "\n", " ", " ", "e", "n", "a", "b", "l", "e", "d", "=", "0", "\n">>}
        ELSE IF is(1, <<"s", "h", "e", "l", "l">>) /\ is(2, <<"d", "u", "m", "p", "s", "y", "s">>)
        THEN {<<>>, <<" ", " ", "l", "e", "v", "e", "l", ":", " ", "5", "0", "\n">>}
        ELSE IF is(1, <<"s", "h", "e", "l", "l">>) /\ is(2, <<"g", "e", "t", "p", "r", "o", "p">>)
        THEN {<<>>, <<"3", "0", "\n">>}
        ELSE IF is(1, <<"s", "h", "e", "l", "l">>) /\ is(2, <<"w", "m">>) /\ is(3, <<"s", "i", "z", "e">>)
        THEN {<<>>, <<"P", "h", "y", "s", "i", "c", "a", "l", " ", "s", "i", "z", "e", ":", " ", "1", "x", "2", "\n">>}
        ELSE IF is(1, <<"s", "h", "e", "l", "l">>) /\ is(2, <<"w", "m">>)
        THEN {<<>>, <<"P", "h", "y", "s", "i", "c", "a", "l", " ", "d", "e", "n", "s", "i", "t", "y", ":", " ", "3", "\n">>}
        ELSE {<<>>}

StderrSamples ==
    { <<>>,
      <<"f", "a", "i", "l", "e", "d">>,
      <<"e", "r", "r", "o", "r", ":", " ", "d", "e", "v", "i", "c", "e", " ", "o", "f", "f", "l", "i", "n", "e">>,
      <<"e", "r", "r", "o", "r", ":", " ", "D", "e", "v", "i", "c", "e", " ", "'", "e", "1", "'", " ", "N", "o", "t", " ", "F", "o", "u", "n", "d", "\n">>,
      <<"d", "e", "v", "i", "c", "e", " ", "o", "f", "f", "l", "i", "n", "e", "\n", "d", "e", "v", "i", "c", "e", " ", "n", "o", "t", " ", "f", "o", "u", "n", "d">> }
ToolStderrSamples == {<<>>, <<"e", "r", "r", "o", "r", ":", " ", "d", "e", "v", "i", "c", "e", " ", "o", "f", "f", "l", "i", "n", "e">>}
StderrFor(c) == IF c.site = "direct" THEN StderrSamples ELSE ToolStderrSamples
ExitCodes == {JsUndef, JsInt(255)}
ExitCodesFor(c) == IF c.site = "direct" THEN ExitCodes ELSE {JsInt(255)}

\* The subprocess of call i exits by itself, or could not be started: exec
\* resolves on exit code 0, rejects with the captured output on another exit
\* (killed is false) and rejects with a bare error when the spawn failed.
ChildExit(i, out, err) ==
    /\ calls[i].child = ChildRunning
    /\ \/ calls' = [calls EXCEPT ![i].child =
                       ChildSettled([rejected |-> FALSE, stdout |-> out, stderr |-> err])]
       \/ \E code \in ExitCodesFor(calls[i]) :
              calls' = [calls EXCEPT ![i].child =
                  ChildSettled([rejected |-> TRUE, killed |-> JsBool(FALSE), code |-> code,
                                stdout |-> out, stderr |-> err])]
       \/ calls' = [calls EXCEPT ![i].child =
              ChildSettled([rejected |-> TRUE, killed |-> JsUndef, code |-> JsUndef,
                            stdout |-> Undefined, stderr |-> Undefined])]
    /\ UNCHANGED <<hostVars, vcall, adbPath, tool>>

\* The timer of exec fires while the subprocess of call i still runs: the
\* runtime kills it and rejects with killed = true and what was captured.
ExecTimeout(i, out, err) ==
    /\ calls[i].child = ChildRunning
    /\ TimerArmed(calls[i].prep.validatedTimeout)
    /\ calls' = [calls EXCEPT ![i].child =
           ChildSettled([rejected |-> TRUE, killed |-> JsBool(TRUE), code |-> JsUndef,
                         stdout |-> out, stderr |-> err])]
    /\ UNCHANGED <<hostVars, vcall, adbPath, tool>>

\* The continuation of call i runs.
ExecuteSettle(i, duration_ms) ==
    /\ calls[i].pc = "awaiting"
    /\ calls[i].child.state = "settled"
    /\ calls' = [calls EXCEPT
           ![i].pc = "done",
           ![i].outcome = ExecuteSettleOutcome(calls[i].prep, calls[i].child.result,
                                               JsInt(duration_ms))]
    /\ UNCHANGED <<hostVars, vcall, adbPath, tool>>

ChildExits ==
    \E i \in {k \in DOMAIN calls : calls[k].child = ChildRunning} :
        \E out \in StdoutFor(calls[i]), err \in StderrFor(calls[i]) : ChildExit(i, out, err)
ExecTimeouts ==
    \E i \in {k \in DOMAIN calls : calls[k].child = ChildRunning} :
        \E out \in StdoutFor(calls[i]), err \in StderrFor(calls[i]) : ExecTimeout(i, out, err)
ExecuteSettles == \E i \in DOMAIN calls, d \in 0..MaxDuration : ExecuteSettle(i, d)

ToolIdle == [name |-> "none", pc |-> "idle"]
\* no resolver call and no stream under way: the client was constructed, so
\* the resolver has run once and holds the path
Null == <<"null">>
MachineIdle == [platform |-> "linux"]
StreamIdle == [state |-> "none"]
PathIdle ==
    /\ cachedADBPath = ResolvedPath /\ machine = MachineIdle /\ resolves = <<>>
    /\ instance = 1
AdbIdle ==
    /\ adbPath = ResolvedPath /\ calls = <<>> /\ tool = ToolIdle
    /\ PathIdle /\ stream = StreamIdle
VIdle == VCall("none", <<>>, TRUE)

(***************************************************************************)
(* The path resolver (tools/adb/utils/path-resolver)                       *)
(***************************************************************************)

MaxResolves == 3

\* What a call of the resolver did to the machine, in order: existsSync(path)
\* and execSync(command).
ExistsSync(path) == [call |-> "existsSync", arg |-> path]
ExecSync(command) == [call |-> "execSync", arg |-> command]
Found(value, probes) == [value |-> value, probes |-> probes]

\* path.join on a POSIX platform for the segments used here: the non-empty
\* segments joined by '/', runs of '/' collapsed
RECURSIVE CollapseSlashes(_)
CollapseSlashes(s) ==
    IF Len(s) < 2 THEN s
    ELSE IF s[1] = "/" /\ s[2] = "/" THEN CollapseSlashes(Tail(s))
    ELSE <<s[1]>> \o CollapseSlashes(Tail(s))
pathJoin(segments) ==
    CollapseSlashes(join(SelectSeq(segments, LAMBDA seg : seg # <<>>), <<"/">>))

\* isExecutable(path) on machine m: the file exists and '"path" version' runs
isExecutable(m, path) ==
    IF path \notin m.exists
    THEN Found(FALSE, <<ExistsSync(path)>>)
    ELSE Found(path \in m.runs,
               <<ExistsSync(path), ExecSync(<<"\"">> \o path \o <<"\"", " ", "v", "e", "r", "s", "i", "o", "n">>)>>)

findInPath(m) ==
    LET lookup == ExecSync(<<"w", "h", "i", "c", "h", " ", "a", "d", "b", " ", "|", "|", " ", "w", "h", "e", "r", "e", " ", "a", "d", "b">>)
        result == trim(m.which.stdout)
        x == isExecutable(m, result)
    IN  IF ~m.which.ok THEN Found(Null, <<lookup>>)
        ELSE IF result # <<>>
        THEN Found(IF x.value THEN result ELSE Null, <<lookup>> \o x.probes)
        ELSE Found(Null, <<lookup>>)

\* for (const path of paths) { if (isExecutable(path)) return path } return null
RECURSIVE FirstExecutable(_, _)
FirstExecutable(m, paths) ==
    IF paths = <<>> THEN Found(Null, <<>>)
    ELSE LET x == isExecutable(m, Head(paths))
             rest == FirstExecutable(m, Tail(paths))
         IN  IF x.value THEN Found(Head(paths), x.probes)
             ELSE Found(rest.value, x.probes \o rest.probes)

S_platform_tools == <<"p", "l", "a", "t", "f", "o", "r", "m", "-", "t", "o", "o", "l", "s">>
S_adb == <<"a", "d", "b">>
S_adb_exe == <<"a", "d", "b", ".", "e", "x", "e">>

findInAndroidHome(m) ==
    LET androidHome == IF Truthy(m.env.ANDROID_HOME) THEN m.env.ANDROID_HOME
                       ELSE m.env.ANDROID_SDK_ROOT
    IN  IF ~Truthy(androidHome) THEN Found(Null, <<>>)
        ELSE FirstExecutable(m, <<pathJoin(<<androidHome, S_platform_tools, S_adb>>),
                                  pathJoin(<<androidHome, S_platform_tools, S_adb_exe>>)>>)

commonPaths(m) ==
    IF m.platform = "darwin"
    THEN <<<<"/", "u", "s", "r", "/", "l", "o", "c", "a", "l", "/", "b", "i", "n", "/", "a", "d", "b">>,
           pathJoin(<<OrEmpty(m.env.HOME), <<"L", "i", "b", "r", "a", "r", "y", "/", "A", "n", "d", "r", "o", "i", "d", "/", "s", "d", "k", "/", "p", "l", "a", "t", "f", "o", "r", "m", "-", "t", "o", "o", "l", "s", "/", "a", "d", "b">>>>),
           <<"/", "o", "p", "t", "/", "h", "o", "m", "e", "b", "r", "e", "w", "/", "b", "i", "n", "/", "a", "d", "b">>>>
    ELSE IF m.platform = "linux"
    THEN <<<<"/", "u", "s", "r", "/", "b", "i", "n", "/", "a", "d", "b">>,
           <<"/", "u", "s", "r", "/", "l", "o", "c", "a", "l", "/", "b", "i", "n", "/", "a", "d", "b">>,
           pathJoin(<<OrEmpty(m.env.HOME), <<"A", "n", "d", "r", "o", "i", "d", "/", "S", "d", "k", "/", "p", "l", "a", "t", "f", "o", "r", "m", "-", "t", "o", "o", "l", "s", "/", "a", "d", "b">>>>),
           <<"/", "o", "p", "t", "/", "a", "n", "d", "r", "o", "i", "d", "-", "s", "d", "k", "/", "p", "l", "a", "t", "f", "o", "r", "m", "-", "t", "o", "o", "l", "s", "/", "a", "d", "b">>>>
    ELSE <<>>

findInCommonLocations(m) == FirstExecutable(m, commonPaths(m))

\* Mutant: the cache is written but never read.
resolveADBPathUncached(cached, m) ==
    LET inPath == findInPath(m)
        inHome == findInAndroidHome(m)
        inCommon == findInCommonLocations(m)
        answer(path, probes) == [result |-> Returns(path), cache |-> path, probes |-> probes]
    IN  IF inPath.value # Null THEN answer(inPath.value, inPath.probes)
        ELSE IF inHome.value # Null
        THEN answer(inHome.value, inPath.probes \o inHome.probes)
        ELSE IF inCommon.value # Null
        THEN answer(inCommon.value, inPath.probes \o inHome.probes \o inCommon.probes)
        ELSE [result |-> Throws("ADBError", "ADB executable not found"),
              cache |-> cached,
              probes |-> inPath.probes \o inHome.probes \o inCommon.probes]

\* resolveADBPath() with the cache holding cached, on machine m: the result,
\* the cache afterwards and what was probed
resolveADBPath(cached, m) ==
    LET inPath == findInPath(m)
        inHome == findInAndroidHome(m)
        inCommon == findInCommonLocations(m)
        answer(path, probes) == [result |-> Returns(path), cache |-> path, probes |-> probes]
    IN  IF cached # Null /\ cached # <<>> THEN answer(cached, <<>>)
        ELSE IF inPath.value # Null THEN answer(inPath.value, inPath.probes)
        ELSE IF inHome.value # Null
        THEN answer(inHome.value, inPath.probes \o inHome.probes)
        ELSE IF inCommon.value # Null
        THEN answer(inCommon.value, inPath.probes \o inHome.probes \o inCommon.probes)
        ELSE [result |-> Throws("ADBError", "ADB executable not found"),
              cache |-> cached,
              probes |-> inPath.probes \o inHome.probes \o inCommon.probes]

\* The machines the resolver runs on: the platform, what the PATH lookup
\* prints, the SDK variables, the files that exist and those among them that
\* answer 'version'.
S_path_adb == <<"/", "p", "/", "a", "d", "b">>
S_home_adb == <<"/", "h", "/", "p", "l", "a", "t", "f", "o", "r", "m", "-", "t", "o", "o", "l", "s", "/", "a", "d", "b">>
S_root_adb == <<"/", "r", "/", "p", "l", "a", "t", "f", "o", "r", "m", "-", "t", "o", "o", "l", "s", "/", "a", "d", "b">>
S_usr_bin_adb == <<"/", "u", "s", "r", "/", "b", "i", "n", "/", "a", "d", "b">>
S_usr_local_adb == <<"/", "u", "s", "r", "/", "l", "o", "c", "a", "l", "/", "b", "i", "n", "/", "a", "d", "b">>
AdbFiles == {S_path_adb, S_home_adb, S_root_adb, S_usr_bin_adb, S_usr_local_adb}
WhichOutcomes ==
    {[ok |-> FALSE, stdout |-> <<>>],
     [ok |-> TRUE, stdout |-> S_path_adb \o <<"\n">>],
     [ok |-> TRUE, stdout |-> S_usr_local_adb \o <<"\n">>]}
Machines ==
    {[platform |-> p, which |-> w,
      env |-> [ANDROID_HOME |-> h, ANDROID_SDK_ROOT |-> r, HOME |-> <<"/", "u">>],
      exists |-> runs \cup broken, runs |-> runs] :
        p \in {"linux", "darwin", "freebsd"},
        w \in WhichOutcomes,
        h \in {Undefined, <<"/", "h">>},
        r \in {Undefined, <<"/", "r", "/">>},
        runs \in SUBSET AdbFiles,
        broken \in {{}, {S_usr_local_adb}}}

ResolveADBPath ==
    /\ Len(resolves) < MaxResolves
    /\ LET r == resolveADBPath(cachedADBPath, machine)
       IN  /\ cachedADBPath' = r.cache
           /\ resolves' = Append(resolves, [op |-> "resolveADBPath", result |-> r.result,
                                            probes |-> r.probes])
    /\ UNCHANGED <<machine, stream, instance, vcall, adbPath, calls, tool>>

ClearADBPathCache ==
    /\ Len(resolves) < MaxResolves
    /\ cachedADBPath' = Null
    /\ resolves' = Append(resolves, [op |-> "clearADBPathCache"])
    /\ UNCHANGED <<machine, stream, instance, vcall, adbPath, calls, tool>>

\* Between two calls the installation changes: adb is removed from the
\* machine, or installed where there was none.
AdbRemoved ==
    /\ machine.runs # {}
    /\ machine' = [machine EXCEPT !.runs = {}, !.exists = {}]
    /\ UNCHANGED <<cachedADBPath, resolves, stream, instance, vcall, adbPath, calls, tool>>

AdbInstalled ==
    /\ machine.runs = {}
    /\ machine' = [machine EXCEPT !.runs = {S_usr_bin_adb}, !.exists = @ \cup {S_usr_bin_adb}]
    /\ UNCHANGED <<cachedADBPath, resolves, stream, instance, vcall, adbPath, calls, tool>>

InitResolve ==
    /\ vcall = VIdle /\ adbPath = Null /\ calls = <<>> /\ tool = ToolIdle
    /\ stream = StreamIdle
    /\ cachedADBPath = Null
    /\ machine \in Machines
    /\ resolves = <<>>
    /\ instance = 0
NextResolve == ResolveADBPath \/ ClearADBPathCache \/ AdbRemoved \/ AdbInstalled
SpecResolve == InitResolve /\ [][NextResolve]_vars

(***************************************************************************)
(* The singleton client (ADBClient.getInstance, resetInstance)              *)
(***************************************************************************)

\* the clients constructed so far by the logged calls of getInstance
Built == Cardinality({k \in DOMAIN resolves : resolves[k].op = "getInstance"
                                              /\ resolves[k].constructed})

\* Mutant: getInstance constructs a client on every call.
getInstanceAlwaysNew(inst, path, cached, m, built) ==
    LET r == resolveADBPath(cached, m)
    IN  IF r.result.ok
        THEN [result |-> Returns(built + 1), instance |-> built + 1,
              adbPath |-> r.result.value, cache |-> r.cache, probes |-> r.probes,
              constructed |-> TRUE]
        ELSE [result |-> r.result, instance |-> inst, adbPath |-> path,
              cache |-> r.cache, probes |-> r.probes, constructed |-> FALSE]

\* ADBClient.getInstance() when the static field holds inst, whose adbPath
\* is path: the client returned or the error of the constructor, the field
\* and the cache of the resolver afterwards, what the resolver probed
getInstance(inst, path, cached, m, built) ==
    LET r == resolveADBPath(cached, m)
    IN  IF inst # 0
        THEN [result |-> Returns(inst), instance |-> inst, adbPath |-> path,
              cache |-> cached, probes |-> <<>>, constructed |-> FALSE]
        ELSE IF r.result.ok
        THEN [result |-> Returns(built + 1), instance |-> built + 1,
              adbPath |-> r.result.value, cache |-> r.cache, probes |-> r.probes,
              constructed |-> TRUE]
        ELSE [result |-> r.result, instance |-> inst, adbPath |-> path,
              cache |-> r.cache, probes |-> r.probes, constructed |-> FALSE]

\* getADBClient() in a handler: what it gives in the current state, and its
\* effect on the singleton and on the resolver
Client == getInstance(instance, adbPath, cachedADBPath, machine, Built)
ClientTaken(client) ==
    /\ instance' = client.instance
    /\ adbPath' = client.adbPath
    /\ cachedADBPath' = client.cache
    /\ UNCHANGED <<machine, resolves, stream, vcall>>
ClientUntouched == UNCHANGED <<hostVars, vcall, adbPath>>

\* the handler obtained the client and calls execute on it
ExecuteStartAs(client, site, args, options) ==
    calls' = Append(calls, ExecuteRecordOf(client.adbPath, site, args, options))

(***************************************************************************)
(* Direct calls of execute                                                 *)
(***************************************************************************)

ExecArgs == {<<S_devices, <<"-", "l">>>>, <<S_wait_for_device>>}
DeviceIdSamples == {Undefined, <<>>, <<"e","1">>, <<" ","e","1","\n">>, <<"e",";">>, <<" ">>}
TimeoutSamples ==
    {JsUndef, JsInt(0 - 1), JsInt(0), JsInt(1), JsInt(DefaultMaxTimeout),
     JsInt(DefaultMaxTimeout + 1), JsNonInt("1.5")}
ThrowOnErrorSamples == {JsUndef, JsBool(TRUE), JsBool(FALSE)}

\* A caller outside the handlers calls execute.
ExecuteCall(args, options) ==
    /\ instance # 0
    /\ tool = ToolIdle
    /\ calls = <<>>
    /\ ExecuteStart("direct", args, options)
    /\ UNCHANGED <<hostVars, vcall, adbPath, tool>>

\* The caller takes the result or the error of its call.
ExecuteReturn ==
    /\ tool = ToolIdle
    /\ calls # <<>>
    /\ calls[1].pc = "done"
    /\ calls' = <<>>
    /\ UNCHANGED <<hostVars, vcall, adbPath, tool>>

InitExecute == vcall = VIdle /\ AdbIdle
NextExecute ==
    \/ \E args \in ExecArgs, d \in DeviceIdSamples, t \in TimeoutSamples,
          e \in ThrowOnErrorSamples :
          ExecuteCall(args, [device_id |-> d, timeout |-> t, throw_on_error |-> e])
    \/ ChildExits
    \/ ExecTimeouts
    \/ ExecuteSettles
    \/ ExecuteReturn
SpecExecute == InitExecute /\ [][NextExecute]_vars

\* The runtime fires an armed timer and runs a continuation whose promise settled.
FairSpecExecute ==
    SpecExecute /\ WF_vars(ExecTimeouts) /\ WF_vars(ExecuteSettles) /\ WF_vars(ExecuteReturn)

(***************************************************************************)
(* ADBClient.listDevices                                                   *)
(***************************************************************************)

Last(s) == s[Len(s)]

\* key:value of a device line, applied in order to the entry
RECURSIVE DeviceProperties(_, _, _)
DeviceProperties(parts, i, deviceInfo) ==
    IF i > Len(parts) THEN deviceInfo
    ELSE LET kv == split(parts[i], ":")
             key == kv[1]
             value == IF Len(kv) >= 2 THEN kv[2] ELSE Undefined
             next == IF ~(Truthy(key) /\ Truthy(value)) THEN deviceInfo
                     ELSE IF key = <<"p", "r", "o", "d", "u", "c", "t">> THEN [deviceInfo EXCEPT !.product = value]
                     ELSE IF key = <<"m", "o", "d", "e", "l">> THEN [deviceInfo EXCEPT !.model = value]
                     ELSE IF key = <<"d", "e", "v", "i", "c", "e">> THEN [deviceInfo EXCEPT !.device = value]
                     ELSE deviceInfo
         IN  DeviceProperties(parts, i + 1, next)

\* the loop of listDevices over the lines after the header
RECURSIVE ParseDeviceLines(_, _)
ParseDeviceLines(lines, includeOffline) ==
    IF lines = <<>> THEN <<>>
    ELSE LET line == Head(lines)
             parts == splitWs(trim(line))
             rest == ParseDeviceLines(Tail(lines), includeOffline)
         IN  IF trim(line) = <<>> THEN rest
             ELSE IF Len(parts) < 2 THEN rest
             ELSE IF ~includeOffline /\ parts[2] # <<"d", "e", "v", "i", "c", "e">> THEN rest
             ELSE <<DeviceProperties(parts, 3,
                        [id |-> parts[1], state |-> parts[2], product |-> Undefined,
                         model |-> Undefined, device |-> Undefined])>> \o rest

\* Mutant: the header line is parsed like the others.
listDevicesKeepHeader(call, includeOffline) ==
    IF ~call.outcome.ok THEN call.outcome
    ELSE Returns(ParseDeviceLines(split(call.outcome.value.stdout, "\n"), includeOffline))

\* listDevices(includeOffline) once its call of execute is done: the error of
\* execute, or the devices parsed from the output
listDevices(call, includeOffline) ==
    IF ~call.outcome.ok THEN call.outcome
    ELSE Returns(ParseDeviceLines(Tail(split(call.outcome.value.stdout, "\n")), includeOffline))

NoOptions == [device_id |-> Undefined, timeout |-> JsUndef, throw_on_error |-> JsUndef]
ListDevicesArgs == <<S_devices, <<"-", "l">>>>

(***************************************************************************)
(* Tool handlers.  One invocation runs at a time; tool holds its name, its *)
(* position, its input, its local variables and its result.  A handler     *)
(* that awaits a call of execute continues when the call is done.          *)
(***************************************************************************)

Invoke(name, pc, input, l) ==
    [name |-> name, pc |-> pc, input |-> input, l |-> l, result |-> NoResult, probes |-> <<>>]
At(name, pc) == tool # ToolIdle /\ tool.name = name /\ tool.pc = pc
Awaited(name, pc) == At(name, pc) /\ calls # <<>> /\ Last(calls).pc = "done"
Finish(r) == tool' = [tool EXCEPT !.pc = "done", !.result = r]
Goto(pc, l) == tool' = [tool EXCEPT !.pc = pc, !.l = l]
Default(v, d) == IF v = JsUndef THEN d ELSE v.v

\* getADBClient() threw in the handler name: the error reaches the caller
ClientMissing(client, name, input, l) ==
    tool' = [Invoke(name, "done", input, l) EXCEPT !.result = client.result,
                                                   !.probes = client.probes]
\* the handler goes on to pc with the client
ClientInvoke(client, name, pc, input, l) ==
    tool' = [Invoke(name, pc, input, l) EXCEPT !.probes = client.probes]

\* The caller takes the result or the error of the invocation.
ToolReturn ==
    /\ tool # ToolIdle
    /\ tool.pc = "done"
    /\ tool' = ToolIdle
    /\ calls' = <<>>
    /\ UNCHANGED <<hostVars, vcall, adbPath>>

\* Mutant: a device id that is given is taken as it is.
TargetDeviceUnchecked(device_id, devices, notFound) ==
    IF ~Truthy(device_id)
    THEN IF Len(devices) = 0
         THEN Throws("DeviceNotFoundError", "No devices connected")
         ELSE Returns(devices[1].id)
    ELSE Returns(device_id)

\* The device selection shared by the app handlers: the first device when
\* none is given, else the given one when listDevices(false) lists it.
TargetDevice(device_id, devices, notFound) ==
    IF ~Truthy(device_id)
    THEN IF Len(devices) = 0
         THEN Throws("DeviceNotFoundError", "No devices connected")
         ELSE Returns(devices[1].id)
    ELSE IF ~\E k \in DOMAIN devices : devices[k].id = device_id
         THEN Throws("DeviceNotFoundError", notFound)
         ELSE Returns(device_id)

(***************************************************************************)
(* installApp (tools/adb/app/install-app)                                  *)
(***************************************************************************)

\* path.extname: from the last dot of the last path segment, empty when the
\* segment has no dot or only a leading one
extname(p) ==
    LET segs == split(p, "/")
        base == Last(segs)
        dots == {i \in 1..Len(base) : base[i] = "."}
        lastDot == CHOOSE i \in dots : \A j \in dots : j <= i
    IN  IF dots = {} THEN <<>>
        ELSE IF lastDot = 1 \/ base = <<".", ".">> THEN <<>>
        ELSE SubSeq(base, lastDot, Len(base))

S_install == <<"i", "n", "s", "t", "a", "l", "l">>
S_success == <<"s", "u", "c", "c", "e", "s", "s">>
S_failed_to_install == <<"f", "a", "i", "l", "e", "d", " ", "t", "o", " ", "i", "n", "s", "t", "a", "l", "l">>
S_failure == <<"f", "a", "i", "l", "u", "r", "e">>

\* the flags of the install command, in the order they are pushed
InstallFlags(input) ==
    (IF Default(input.replace, FALSE) THEN <<<<"-", "r">>>> ELSE <<>>)
    \o (IF Default(input.grant_permissions, FALSE) THEN <<<<"-", "g">>>> ELSE <<>>)
    \o (IF Default(input.allow_downgrade, FALSE) THEN <<<<"-", "d">>>> ELSE <<>>)
    \o (IF Default(input.allow_test_apk, FALSE) THEN <<<<"-", "t">>>> ELSE <<>>)

\* the error thrown for an install output without "success"
InstallFailure(result) ==
    LET output == toLowerCase(result.stdout)
        errorMessage == IF Truthy(result.stdout) THEN result.stdout ELSE result.stderr
        errorLower == toLowerCase(errorMessage)
    IN  IF includes(output, S_failed_to_install) \/ includes(output, S_failure)
        THEN IF includes(errorLower, <<"i", "n", "s", "t", "a", "l", "l", "_", "f", "a", "i", "l", "e", "d", "_", "a", "l", "r", "e", "a", "d", "y", "_", "e", "x", "i", "s", "t", "s">>)
             THEN Throws("ADBError", "App already installed. Use replace=true to update it")
             ELSE IF includes(errorLower, <<"i", "n", "s", "t", "a", "l", "l", "_", "f", "a", "i", "l", "e", "d", "_", "v", "e", "r", "s", "i", "o", "n", "_", "d", "o", "w", "n", "g", "r", "a", "d", "e">>)
             THEN Throws("ADBError", "Version downgrade not allowed. Use allow_downgrade=true")
             ELSE IF includes(errorLower, <<"i", "n", "s", "t", "a", "l", "l", "_", "f", "a", "i", "l", "e", "d", "_", "i", "n", "s", "u", "f", "f", "i", "c", "i", "e", "n", "t", "_", "s", "t", "o", "r", "a", "g", "e">>)
             THEN Throws("ADBError", "Insufficient storage space on device")
             ELSE IF includes(errorLower, <<"i", "n", "s", "t", "a", "l", "l", "_", "f", "a", "i", "l", "e", "d", "_", "i", "n", "v", "a", "l", "i", "d", "_", "a", "p", "k">>)
             THEN Throws("ADBError", "Invalid or corrupted APK file")
             ELSE Throws("ADBError", "Failed to install APK")
        ELSE Throws("ADBError", "Unexpected response from ADB install command")

\* stdout.match(/package: name='([^']+)'/): the first group, or Undefined
S_package_name == <<"p", "a", "c", "k", "a", "g", "e", ":", " ", "n", "a", "m", "e", "=", "'">>
matchPackageName(s) ==
    LET ends(i) == {j \in (i + Len(S_package_name) + 1)..Len(s) :
                       /\ s[j] = "'"
                       /\ \A k \in (i + Len(S_package_name))..(j - 1) : s[k] # "'"}
        starts == {i \in 1..Len(s) : LitAt(s, i, S_package_name) /\ ends(i) # {}}
        first == CHOOSE i \in starts : \A j \in starts : i <= j
    IN  IF starts = {} THEN Undefined
        ELSE SubSeq(s, first + Len(S_package_name), (CHOOSE j \in ends(first) : TRUE) - 1)

StatOutcomes == {"file", "directory", "ENOENT", "EACCES"}
InstallOptions == [device_id |-> Undefined, timeout |-> JsInt(120000), throw_on_error |-> JsBool(FALSE)]
DumpOptions == [device_id |-> Undefined, timeout |-> JsInt(10000), throw_on_error |-> JsBool(FALSE)]

\* installApp(input) up to the await of fs.stat
InstallApp(input) ==
    /\ tool = ToolIdle
    /\ calls = <<>>
    /\ LET v == validateFilePath(input.apk_path, TRUE)
           l == [targetDevice |-> Undefined, stats |-> "none"]
       IN  tool' = IF v.ok THEN Invoke("installApp", "stat", input, l)
                   ELSE [Invoke("installApp", "done", input, l) EXCEPT !.result = v]
    /\ UNCHANGED <<hostVars, vcall, adbPath, calls>>

\* Mutant: the extension test is left out.
InstallAppStatAnyExtension(stat) ==
    \E client \in {Client} :
    /\ At("installApp", "stat")
    /\ LET l == [tool.l EXCEPT !.stats = stat]
           Fail(e) == tool' = [tool EXCEPT !.pc = "done", !.l = l, !.result = e]
       IN  IF stat = "directory"
           THEN Fail(Throws("ADBError", "APK path must be a file"))
                /\ UNCHANGED calls /\ ClientUntouched
           ELSE IF stat = "ENOENT"
           THEN Fail(Throws("ADBError", "APK file not found"))
                /\ UNCHANGED calls /\ ClientUntouched
           ELSE IF stat # "file"
           THEN Fail(Throws("Error", stat)) /\ UNCHANGED calls /\ ClientUntouched
           ELSE IF ~client.result.ok
           THEN /\ tool' = [tool EXCEPT !.pc = "done", !.l = l, !.result = client.result,
                                        !.probes = client.probes]
                /\ UNCHANGED calls /\ ClientTaken(client)
           ELSE /\ tool' = [tool EXCEPT !.pc = "devices", !.l = l, !.probes = client.probes]
                /\ ExecuteStartAs(client, "installApp.listDevices", ListDevicesArgs, NoOptions)
                /\ ClientTaken(client)

\* fs.stat answered: the file and extension tests, then listDevices.  stats
\* keeps what fs.stat gave.
InstallAppStat(stat) ==
    \E client \in {Client} :
    /\ At("installApp", "stat")
    /\ LET ext == toLowerCase(extname(tool.input.apk_path))
           l == [tool.l EXCEPT !.stats = stat]
           Fail(e) == tool' = [tool EXCEPT !.pc = "done", !.l = l, !.result = e]
       IN  IF stat = "directory"
           THEN Fail(Throws("ADBError", "APK path must be a file"))
                /\ UNCHANGED calls /\ ClientUntouched
           ELSE IF stat = "ENOENT"
           THEN Fail(Throws("ADBError", "APK file not found"))
                /\ UNCHANGED calls /\ ClientUntouched
           ELSE IF stat # "file"
           THEN Fail(Throws("Error", stat)) /\ UNCHANGED calls /\ ClientUntouched
           ELSE IF ext # <<".", "a", "p", "k">>
           THEN Fail(Throws("ADBError", "File must have .apk extension"))
                /\ UNCHANGED calls /\ ClientUntouched
           ELSE IF ~client.result.ok
           THEN /\ tool' = [tool EXCEPT !.pc = "done", !.l = l, !.result = client.result,
                                        !.probes = client.probes]
                /\ UNCHANGED calls /\ ClientTaken(client)
           ELSE /\ tool' = [tool EXCEPT !.pc = "devices", !.l = l, !.probes = client.probes]
                /\ ExecuteStartAs(client, "installApp.listDevices", ListDevicesArgs, NoOptions)
                /\ ClientTaken(client)

\* listDevices answered: the target device, the install command, execute
InstallAppDevices ==
    /\ Awaited("installApp", "devices")
    /\ LET devices == listDevices(Last(calls), FALSE)
           target == TargetDevice(tool.input.device_id, devices.value, "Device not found")
       IN  IF ~devices.ok THEN Finish(devices) /\ calls' = Consume
           ELSE IF ~target.ok THEN Finish(target) /\ calls' = Consume
           ELSE /\ Goto("install", [tool.l EXCEPT !.targetDevice = target.value])
                /\ ExecuteStartOn(Consume, "installApp.install",
                       <<S_dash_s, target.value, S_install>> \o InstallFlags(tool.input)
                           \o <<tool.input.apk_path>>,
                       InstallOptions)
    /\ UNCHANGED <<hostVars, vcall, adbPath>>

\* the install command answered: success leads to the aapt query
InstallAppInstalled ==
    /\ Awaited("installApp", "install")
    /\ LET call == Last(calls)
       IN  IF ~call.outcome.ok THEN Finish(call.outcome) /\ calls' = Consume
           ELSE IF includes(toLowerCase(call.outcome.value.stdout), S_success)
           THEN /\ Goto("dump", tool.l)
                /\ ExecuteStartOn(Consume, "installApp.dump",
                       <<<<"a", "a", "p", "t">>, <<"d", "u", "m", "p">>, <<"b", "a", "d", "g", "i", "n", "g">>, tool.input.apk_path>>, DumpOptions)
           ELSE Finish(InstallFailure(call.outcome.value)) /\ calls' = Consume
    /\ UNCHANGED <<hostVars, vcall, adbPath>>

\* the aapt query answered or failed: the response
InstallAppDumped ==
    /\ Awaited("installApp", "dump")
    /\ LET call == Last(calls)
       IN  Finish(Returns([success |-> TRUE,
                           device_id |-> tool.l.targetDevice,
                           package_name |-> IF call.outcome.ok
                                            THEN matchPackageName(call.outcome.value.stdout)
                                            ELSE Undefined,
                           apk_path |-> tool.input.apk_path]))
    /\ calls' = Consume
    /\ UNCHANGED <<hostVars, vcall, adbPath>>

(***************************************************************************)
(* uninstallApp (tools/adb/app/uninstall-app)                              *)
(***************************************************************************)

S_uninstall == <<"u", "n", "i", "n", "s", "t", "a", "l", "l">>
S_failed == <<"f", "a", "i", "l", "e", "d">>
UninstallOptions == [device_id |-> Undefined, timeout |-> JsInt(30000), throw_on_error |-> JsBool(FALSE)]

\* Mutant: the test for the internal error comes before the test for a
\* package that is not installed.
UninstallOutcomeInternalFirst(result, input, targetDevice) ==
    LET output == toLowerCase(result.stdout)
        errorMessage == IF Truthy(result.stdout) THEN result.stdout ELSE result.stderr
        errorLower == toLowerCase(errorMessage)
    IN  IF includes(output, S_success)
        THEN Returns([success |-> TRUE, device_id |-> targetDevice,
                      package_name |-> input.package_name,
                      data_kept |-> Default(input.keep_data, FALSE)])
        ELSE IF includes(output, S_failure) \/ includes(output, S_failed)
        THEN IF includes(errorLower, <<"d", "e", "l", "e", "t", "e", "_", "f", "a", "i", "l", "e", "d", "_", "i", "n", "t", "e", "r", "n", "a", "l", "_", "e", "r", "r", "o", "r">>)
             THEN Throws("ADBError", "Internal error during uninstallation")
             ELSE IF \/ includes(errorLower, <<"n", "o", "t", " ", "i", "n", "s", "t", "a", "l", "l", "e", "d">>)
                     \/ includes(errorLower, <<"u", "n", "k", "n", "o", "w", "n", " ", "p", "a", "c", "k", "a", "g", "e">>)
             THEN Throws("PackageNotFoundError", "Package not found")
             ELSE Throws("ADBError", "Failed to uninstall package")
        ELSE Throws("ADBError", "Unexpected response from ADB uninstall command")

\* the result or the error for the output of the uninstall command
UninstallOutcome(result, input, targetDevice) ==
    LET output == toLowerCase(result.stdout)
        errorMessage == IF Truthy(result.stdout) THEN result.stdout ELSE result.stderr
        errorLower == toLowerCase(errorMessage)
    IN  IF includes(output, S_success)
        THEN Returns([success |-> TRUE, device_id |-> targetDevice,
                      package_name |-> input.package_name,
                      data_kept |-> Default(input.keep_data, FALSE)])
        ELSE IF includes(output, S_failure) \/ includes(output, S_failed)
        THEN IF \/ includes(errorLower, <<"n", "o", "t", " ", "i", "n", "s", "t", "a", "l", "l", "e", "d">>)
                \/ includes(errorLower, <<"u", "n", "k", "n", "o", "w", "n", " ", "p", "a", "c", "k", "a", "g", "e">>)
             THEN Throws("PackageNotFoundError", "Package not found")
             ELSE IF includes(errorLower, <<"d", "e", "l", "e", "t", "e", "_", "f", "a", "i", "l", "e", "d", "_", "i", "n", "t", "e", "r", "n", "a", "l", "_", "e", "r", "r", "o", "r">>)
             THEN Throws("ADBError", "Internal error during uninstallation")
             ELSE Throws("ADBError", "Failed to uninstall package")
        ELSE Throws("ADBError", "Unexpected response from ADB uninstall command")

\* uninstallApp(input) up to the await of listDevices
UninstallApp(input) ==
    \E client \in {Client} :
    /\ tool = ToolIdle
    /\ calls = <<>>
    /\ LET v == validatePackageName(input.package_name)
           l == [targetDevice |-> Undefined]
       IN  IF ~v.ok
           THEN /\ tool' = [Invoke("uninstallApp", "done", input, l) EXCEPT !.result = v]
                /\ UNCHANGED calls /\ ClientUntouched
           ELSE IF ~client.result.ok
           THEN ClientMissing(client, "uninstallApp", input, l) /\ UNCHANGED calls /\ ClientTaken(client)
           ELSE /\ ClientInvoke(client, "uninstallApp", "devices", input, l)
                /\ ExecuteStartAs(client, "uninstallApp.listDevices", ListDevicesArgs, NoOptions)
                /\ ClientTaken(client)

\* listDevices answered: the target device, the uninstall command, execute
UninstallAppDevices ==
    /\ Awaited("uninstallApp", "devices")
    /\ LET devices == listDevices(Last(calls), FALSE)
           target == TargetDevice(tool.input.device_id, devices.value, "Device not found")
       IN  IF ~devices.ok THEN Finish(devices) /\ calls' = Consume
           ELSE IF ~target.ok THEN Finish(target) /\ calls' = Consume
           ELSE /\ Goto("uninstall", [targetDevice |-> target.value])
                /\ ExecuteStartOn(Consume, "uninstallApp.uninstall",
                       <<S_dash_s, target.value, S_uninstall>>
                           \o (IF Default(tool.input.keep_data, FALSE) THEN <<<<"-", "k">>>> ELSE <<>>)
                           \o <<tool.input.package_name>>,
                       UninstallOptions)
    /\ UNCHANGED <<hostVars, vcall, adbPath>>

\* the uninstall command answered: the response
UninstallAppUninstalled ==
    /\ Awaited("uninstallApp", "uninstall")
    /\ LET call == Last(calls)
       IN  Finish(IF ~call.outcome.ok THEN call.outcome
                  ELSE UninstallOutcome(call.outcome.value, tool.input, tool.l.targetDevice))
    /\ calls' = Consume
    /\ UNCHANGED <<hostVars, vcall, adbPath>>

(***************************************************************************)
(* getPackageInfo (tools/adb/app/get-package-info)                         *)
(***************************************************************************)

\* output.match(/key([class]+)/): the first group of the leftmost match, the
\* longest run of characters of the class after key, or Undefined
\* the character classes \S, \d and [^\n] of the patterns
InClass(class, c) ==
    CASE class = "NonSpace" -> c \notin Whitespace
      [] class = "Digit" -> c \in Digits
      [] class = "NotNewline" -> c # "\n"

MatchRun(output, key, class) ==
    LET starts == {i \in 1..Len(output) :
                      /\ LitAt(output, i, key)
                      /\ i + Len(key) <= Len(output)
                      /\ InClass(class, output[i + Len(key)])}
        first == CHOOSE i \in starts : \A j \in starts : i <= j
        from == first + Len(key)
        to == CHOOSE j \in from..Len(output) :
                  /\ \A k \in from..j : InClass(class, output[k])
                  /\ (j < Len(output) => ~InClass(class, output[j + 1]))
    IN  IF starts = {} THEN Undefined ELSE SubSeq(output, from, to)

TrimIfMatched(m) == IF m = Undefined THEN Undefined ELSE trim(m)

S_requested_permissions == <<"r", "e", "q", "u", "e", "s", "t", "e", "d", " ", "p", "e", "r", "m", "i", "s", "s", "i", "o", "n", "s", ":">>
S_install_permissions == <<"\n", "i", "n", "s", "t", "a", "l", "l", " ", "p", "e", "r", "m", "i", "s", "s", "i", "o", "n", "s", ":">>

\* the lookahead (?=\n\s*\n|\ninstall permissions:) at position j
PermissionsEnd(output, j) ==
    \/ /\ j <= Len(output) /\ output[j] = "\n"
       /\ \E k \in WsStar(output, j + 1) : k <= Len(output) /\ output[k] = "\n"
    \/ LitAt(output, j, S_install_permissions)

\* the group of /requested permissions:([\s\S]*?)(?=...)/, or Undefined
PermissionsSection(output) ==
    LET matches == {<<i, j>> \in (1..Len(output)) \X (1..(Len(output) + 1)) :
                       /\ LitAt(output, i, S_requested_permissions)
                       /\ j >= i + Len(S_requested_permissions)
                       /\ PermissionsEnd(output, j)}
        m == CHOOSE a \in matches :
                 \A b \in matches : a[1] < b[1] \/ (a[1] = b[1] /\ a[2] <= b[2])
    IN  IF matches = {} THEN Undefined
        ELSE SubSeq(output, m[1] + Len(S_requested_permissions), m[2] - 1)

RECURSIVE PermissionsOf(_)
PermissionsOf(lines) ==
    IF lines = <<>> THEN <<>>
    ELSE LET line == trim(Head(lines))
         IN  (IF startsWith(line, <<"a", "n", "d", "r", "o", "i", "d", ".", "p", "e", "r", "m", "i", "s", "s", "i", "o", "n", ".">>) THEN <<split(line, ":")[1]>> ELSE <<>>)
             \o PermissionsOf(Tail(lines))

\* the DetailedPackageInfo parsed from the dumpsys output
ParsePackageDump(output, package_name, targetDevice) ==
    LET apk_path == MatchRun(output, <<"c", "o", "d", "e", "P", "a", "t", "h", "=">>, "NonSpace")
        section == PermissionsSection(output)
        permissions == IF section = Undefined THEN <<>> ELSE PermissionsOf(split(section, "\n"))
    IN  [package_name |-> package_name,
         device_id |-> targetDevice,
         version_name |-> MatchRun(output, <<"v", "e", "r", "s", "i", "o", "n", "N", "a", "m", "e", "=">>, "NonSpace"),
         version_code |-> MatchRun(output, <<"v", "e", "r", "s", "i", "o", "n", "C", "o", "d", "e", "=">>, "Digit"),
         install_location |-> MatchRun(output, <<"i", "n", "s", "t", "a", "l", "l", "L", "o", "c", "a", "t", "i", "o", "n", "=">>, "NonSpace"),
         first_install_time |-> TrimIfMatched(MatchRun(output, <<"f", "i", "r", "s", "t", "I", "n", "s", "t", "a", "l", "l", "T", "i", "m", "e", "=">>, "NotNewline")),
         last_update_time |-> TrimIfMatched(MatchRun(output, <<"l", "a", "s", "t", "U", "p", "d", "a", "t", "e", "T", "i", "m", "e", "=">>, "NotNewline")),
         data_dir |-> MatchRun(output, <<"d", "a", "t", "a", "D", "i", "r", "=">>, "NonSpace"),
         apk_path |-> apk_path,
         uid |-> MatchRun(output, <<"u", "s", "e", "r", "I", "d", "=">>, "Digit"),
         target_sdk |-> MatchRun(output, <<"t", "a", "r", "g", "e", "t", "S", "d", "k", "=">>, "Digit"),
         min_sdk |-> MatchRun(output, <<"m", "i", "n", "S", "d", "k", "=">>, "Digit"),
         permissions |-> IF Len(permissions) > 0 THEN permissions ELSE Undefined,
         is_system_app |-> Truthy(apk_path) /\ includes(apk_path, <<"/", "s", "y", "s", "t", "e", "m", "/">>),
         is_enabled |-> IF includes(output, <<"e", "n", "a", "b", "l", "e", "d", "=", "1">>) \/ includes(output, <<"E", "N", "A", "B", "L", "E", "D">>)
                        THEN TRUE
                        ELSE ~(includes(output, <<"e", "n", "a", "b", "l", "e", "d", "=", "0">>) \/ includes(output, <<"D", "I", "S", "A", "B", "L", "E", "D">>))]

PackageDumpOptions == [device_id |-> Undefined, timeout |-> JsInt(30000), throw_on_error |-> JsBool(FALSE)]

\* getPackageInfo(input) up to the await of listDevices
GetPackageInfo(input) ==
    \E client \in {Client} :
    /\ tool = ToolIdle
    /\ calls = <<>>
    /\ LET v == validatePackageName(input.package_name)
           l == [targetDevice |-> Undefined]
       IN  IF ~v.ok
           THEN /\ tool' = [Invoke("getPackageInfo", "done", input, l) EXCEPT !.result = v]
                /\ UNCHANGED calls /\ ClientUntouched
           ELSE IF ~client.result.ok
           THEN ClientMissing(client, "getPackageInfo", input, l) /\ UNCHANGED calls /\ ClientTaken(client)
           ELSE /\ ClientInvoke(client, "getPackageInfo", "devices", input, l)
                /\ ExecuteStartAs(client, "getPackageInfo.listDevices", ListDevicesArgs, NoOptions)
                /\ ClientTaken(client)

\* listDevices answered: the target device, the dumpsys command, execute
GetPackageInfoDevices ==
    /\ Awaited("getPackageInfo", "devices")
    /\ LET devices == listDevices(Last(calls), FALSE)
           target == TargetDevice(tool.input.device_id, devices.value, "Device not found")
       IN  IF ~devices.ok THEN Finish(devices) /\ calls' = Consume
           ELSE IF ~target.ok THEN Finish(target) /\ calls' = Consume
           ELSE /\ Goto("dump", [targetDevice |-> target.value])
                /\ ExecuteStartOn(Consume, "getPackageInfo.dump",
                       <<S_dash_s, target.value, <<"s", "h", "e", "l", "l">>, <<"d", "u", "m", "p", "s", "y", "s">>, <<"p", "a", "c", "k", "a", "g", "e">>,
                         tool.input.package_name>>,
                       PackageDumpOptions)
    /\ UNCHANGED <<hostVars, vcall, adbPath>>

\* the dumpsys command answered: the response
GetPackageInfoDumped ==
    /\ Awaited("getPackageInfo", "dump")
    /\ LET call == Last(calls)
       IN  Finish(IF ~call.outcome.ok THEN call.outcome
                  ELSE IF ~call.outcome.value.success \/ ~Truthy(call.outcome.value.stdout)
                  THEN Throws("PackageNotFoundError", "Package not found")
                  ELSE IF includes(call.outcome.value.stdout, <<"U", "n", "a", "b", "l", "e", " ", "t", "o", " ", "f", "i", "n", "d", " ", "p", "a", "c", "k", "a", "g", "e">>)
                  THEN Throws("PackageNotFoundError", "Package not found")
                  ELSE Returns(ParsePackageDump(call.outcome.value.stdout,
                                                tool.input.package_name, tool.l.targetDevice)))
    /\ calls' = Consume
    /\ UNCHANGED <<hostVars, vcall, adbPath>>

(***************************************************************************)
(* listPackages (tools/adb/app/list-packages)                              *)
(***************************************************************************)

S_package_colon == <<"p", "a", "c", "k", "a", "g", "e", ":">>

\* the commands of an invocation, in the order they are pushed
PackageCommands(input) ==
    (IF Default(input.show_third_party, TRUE) THEN <<[type |-> "third-party", flag |-> <<"-", "3">>]>> ELSE <<>>)
    \o (IF Default(input.show_system, FALSE) THEN <<[type |-> "system", flag |-> <<"-", "s">>]>> ELSE <<>>)
    \o (IF Default(input.show_disabled, FALSE) THEN <<[type |-> "disabled", flag |-> <<"-", "d">>]>> ELSE <<>>)

PackageCommandArgs(targetDevice, cmd) ==
    <<S_dash_s, targetDevice, <<"s", "h", "e", "l", "l">>, <<"p", "m">>, <<"l", "i", "s", "t">>, <<"p", "a", "c", "k", "a", "g", "e", "s">>, cmd.flag>>

\* the inner loop over the lines of one command's output
RECURSIVE AddPackages(_, _, _, _)
AddPackages(packages, lines, type, filter) ==
    IF lines = <<>> THEN packages
    ELSE LET line == Head(lines)
             rest == SubSeq(line, Len(S_package_colon) + 1, Len(line))
             matched == /\ startsWith(line, S_package_colon)
                        /\ Len(rest) >= 1
                        /\ \A k \in 1..Len(rest) : rest[k] \notin LineTerminators
             packageName == trim(rest)
             keep == /\ matched
                     /\ (~Truthy(filter) \/ includes(packageName, filter))
                     /\ ~\E k \in DOMAIN packages : packages[k].package_name = packageName
         IN  AddPackages(IF keep THEN Append(packages, [package_name |-> packageName, type |-> type])
                         ELSE packages,
                         Tail(lines), type, filter)

\* a.localeCompare(b) < 0 for names of lower-case letters, digits, _ and dots:
\* punctuation before digits before letters, a prefix before its extensions
CollationOrder ==
    <<"_", ".", "0", "1", "2", "3", "4", "5", "6", "7", "8", "9">> \o LowerLetters
Rank(c) == CHOOSE i \in DOMAIN CollationOrder : CollationOrder[i] = c
RECURSIVE LocaleLess(_, _)
LocaleLess(a, b) ==
    IF b = <<>> THEN FALSE
    ELSE IF a = <<>> THEN TRUE
    ELSE IF Head(a) = Head(b) THEN LocaleLess(Tail(a), Tail(b))
    ELSE Rank(Head(a)) < Rank(Head(b))

\* packages.sort(by package_name): a stable sort
RECURSIVE SortPackages(_)
SortPackages(packages) ==
    IF packages = <<>> THEN <<>>
    ELSE LET sorted == SortPackages(SubSeq(packages, 1, Len(packages) - 1))
             p == Last(packages)
             before == {k \in DOMAIN sorted : ~LocaleLess(p.package_name, sorted[k].package_name)}
             n == Cardinality(before)
         IN  SubSeq(sorted, 1, n) \o <<p>> \o SubSeq(sorted, n + 1, Len(sorted))

CountType(packages, type) == Cardinality({k \in DOMAIN packages : packages[k].type = type})

\* Mutant: the list is answered in the order the names were found.
ListPackagesResultUnsorted(packages, input, targetDevice) ==
    Returns([packages |-> packages,
             total |-> Len(packages),
             third_party_count |-> CountType(packages, "third-party"),
             system_count |-> CountType(packages, "system"),
             disabled_count |-> CountType(packages, "disabled"),
             device_id |-> targetDevice,
             filter_applied |-> IF Truthy(input.filter) THEN input.filter ELSE Undefined])

ListPackagesResult(packages, input, targetDevice) ==
    LET sorted == SortPackages(packages)
    IN  Returns([packages |-> sorted,
                 total |-> Len(sorted),
                 third_party_count |-> CountType(sorted, "third-party"),
                 system_count |-> CountType(sorted, "system"),
                 disabled_count |-> CountType(sorted, "disabled"),
                 device_id |-> targetDevice,
                 filter_applied |-> IF Truthy(input.filter) THEN input.filter ELSE Undefined])

PackageListOptions == [device_id |-> Undefined, timeout |-> JsInt(30000), throw_on_error |-> JsBool(FALSE)]

\* listPackages(input) up to the await of listDevices
ListPackages(input) ==
    \E client \in {Client} :
    /\ tool = ToolIdle
    /\ calls = <<>>
    /\ LET l == [targetDevice |-> Undefined, commands |-> <<>>, packages |-> <<>>]
       IN  IF ~client.result.ok
           THEN ClientMissing(client, "listPackages", input, l) /\ UNCHANGED calls
           ELSE /\ ClientInvoke(client, "listPackages", "devices", input, l)
                /\ ExecuteStartAs(client, "listPackages.listDevices", ListDevicesArgs, NoOptions)
    /\ ClientTaken(client)

\* listDevices answered: the target device, the commands, the first execute
ListPackagesDevices ==
    /\ Awaited("listPackages", "devices")
    /\ LET devices == listDevices(Last(calls), FALSE)
           target == TargetDevice(tool.input.device_id, devices.value, "Device not found")
           commands == PackageCommands(tool.input)
       IN  IF ~devices.ok THEN Finish(devices) /\ calls' = Consume
           ELSE IF ~target.ok THEN Finish(target) /\ calls' = Consume
           ELSE IF commands = <<>>
           THEN Finish(ListPackagesResult(<<>>, tool.input, target.value)) /\ calls' = Consume
           ELSE /\ Goto("list", [targetDevice |-> target.value, commands |-> commands,
                                 packages |-> <<>>])
                /\ ExecuteStartOn(Consume, "listPackages." \o commands[1].type,
                                PackageCommandArgs(target.value, commands[1]), PackageListOptions)
    /\ UNCHANGED <<hostVars, vcall, adbPath>>

\* one command answered: its packages, then the next command or the response
ListPackagesListed ==
    /\ Awaited("listPackages", "list")
    /\ LET call == Last(calls)
           cmd == tool.l.commands[1]
           rest == Tail(tool.l.commands)
           packages == IF call.outcome.ok /\ call.outcome.value.success
                       THEN AddPackages(tool.l.packages, split(call.outcome.value.stdout, "\n"),
                                        cmd.type, tool.input.filter)
                       ELSE tool.l.packages
       IN  IF ~call.outcome.ok THEN Finish(call.outcome) /\ calls' = Consume
           ELSE IF rest = <<>>
           THEN Finish(ListPackagesResult(packages, tool.input, tool.l.targetDevice))
                /\ calls' = Consume
           ELSE /\ Goto("list", [tool.l EXCEPT !.commands = rest, !.packages = packages])
                /\ ExecuteStartOn(Consume, "listPackages." \o rest[1].type,
                                PackageCommandArgs(tool.l.targetDevice, rest[1]), PackageListOptions)
    /\ UNCHANGED <<hostVars, vcall, adbPath>>

(***************************************************************************)
(* connectDevice (tools/adb/device/connect-device)                         *)
(***************************************************************************)

AlphaNum == Letters \cup Digits

\* [a-zA-Z0-9](?:[a-zA-Z0-9-]*[a-zA-Z0-9])?
HostLabel(label) ==
    /\ Len(label) >= 1
    /\ label[1] \in AlphaNum
    /\ label[Len(label)] \in AlphaNum
    /\ \A k \in 1..Len(label) : label[k] \in AlphaNum \cup {"-"}

\* \d{1,3}
Octet(label) == Len(label) \in 1..3 /\ \A k \in 1..Len(label) : label[k] \in Digits

\* hostRegex.test(host): four dot-separated groups of one to three digits, or
\* dot-separated host labels
hostRegex(host) ==
    LET labels == split(host, ".")
    IN  \/ Len(labels) = 4 /\ \A k \in 1..4 : Octet(labels[k])
        \/ \A k \in DOMAIN labels : HostLabel(labels[k])

\* the decimal digits of a non-negative integer, as the template literal prints it
RECURSIVE ToDecimal(_)
ToDecimal(n) ==
    LET digit == <<"0", "1", "2", "3", "4", "5", "6", "7", "8", "9">>[(n % 10) + 1]
    IN  IF n < 10 THEN <<digit>> ELSE ToDecimal(n \div 10) \o <<digit>>

DEFAULT_PORT == 5555
DEFAULT_CONNECT_TIMEOUT == 10000

\* an error thrown with a detail payload; details names the list it carries
ThrowsWith(err, msg, details) ==
    [ok |-> FALSE, error |-> err, message |-> msg, details |-> details]

\* Mutant: the test for 'connected to' comes first.
ConnectOutcomeConnectedFirst(result, connectionString) ==
    LET output == toLowerCase(result.stdout)
    IN  IF includes(output, <<"c", "o", "n", "n", "e", "c", "t", "e", "d", " ", "t", "o">>)
        THEN Returns([success |-> TRUE, device_id |-> connectionString,
                      connection_string |-> connectionString,
                      was_already_connected |-> JsUndef, instructions |-> TRUE])
        ELSE IF includes(output, <<"a", "l", "r", "e", "a", "d", "y", " ", "c", "o", "n", "n", "e", "c", "t", "e", "d">>)
        THEN Returns([success |-> TRUE, device_id |-> connectionString,
                      connection_string |-> connectionString,
                      was_already_connected |-> JsBool(TRUE), instructions |-> FALSE])
        ELSE IF includes(output, <<"f", "a", "i", "l", "e", "d", " ", "t", "o", " ", "c", "o", "n", "n", "e", "c", "t">>) \/ includes(output, <<"c", "a", "n", "n", "o", "t", " ", "c", "o", "n", "n", "e", "c", "t">>)
        THEN ThrowsWith("ADBError", "Failed to connect. Ensure device has wireless debugging enabled",
                         "troubleshooting")
        ELSE ThrowsWith("ADBError", "Unexpected response from ADB connect command", "response")

\* the result or the error for the output of the connect command
ConnectOutcome(result, connectionString) ==
    LET output == toLowerCase(result.stdout)
    IN  IF includes(output, <<"a", "l", "r", "e", "a", "d", "y", " ", "c", "o", "n", "n", "e", "c", "t", "e", "d">>)
        THEN Returns([success |-> TRUE, device_id |-> connectionString,
                      connection_string |-> connectionString,
                      was_already_connected |-> JsBool(TRUE), instructions |-> FALSE])
        ELSE IF includes(output, <<"c", "o", "n", "n", "e", "c", "t", "e", "d", " ", "t", "o">>)
        THEN Returns([success |-> TRUE, device_id |-> connectionString,
                      connection_string |-> connectionString,
                      was_already_connected |-> JsUndef, instructions |-> TRUE])
        ELSE IF includes(output, <<"f", "a", "i", "l", "e", "d", " ", "t", "o", " ", "c", "o", "n", "n", "e", "c", "t">>) \/ includes(output, <<"c", "a", "n", "n", "o", "t", " ", "c", "o", "n", "n", "e", "c", "t">>)
        THEN ThrowsWith("ADBError", "Failed to connect. Ensure device has wireless debugging enabled",
                         "troubleshooting")
        ELSE ThrowsWith("ADBError", "Unexpected response from ADB connect command", "response")

\* connectDevice(input) up to the await of execute
ConnectDevice(input) ==
    \E client \in {Client} :
    /\ tool = ToolIdle
    /\ calls = <<>>
    /\ LET port == IF input.port = JsUndef THEN JsInt(DEFAULT_PORT) ELSE input.port
           timeout == IF input.timeout = JsUndef THEN JsInt(DEFAULT_CONNECT_TIMEOUT)
                      ELSE input.timeout
           v == validatePort(port)
           connectionString == input.host \o <<":">> \o ToDecimal(port.v)
           l == [connectionString |-> IF v.ok THEN connectionString ELSE Undefined]
       IN  IF ~v.ok
           THEN /\ tool' = [Invoke("connectDevice", "done", input, l) EXCEPT !.result = v]
                /\ UNCHANGED calls /\ ClientUntouched
           ELSE IF ~hostRegex(input.host)
           THEN /\ tool' = [Invoke("connectDevice", "done", input, l) EXCEPT !.result =
                               Throws("ADBError", "Invalid host format. Must be an IP address or hostname")]
                /\ UNCHANGED calls /\ ClientUntouched
           ELSE IF ~client.result.ok
           THEN ClientMissing(client, "connectDevice", input, l) /\ UNCHANGED calls /\ ClientTaken(client)
           ELSE /\ ClientInvoke(client, "connectDevice", "connect", input, l)
                /\ ExecuteStartAs(client, "connectDevice.connect", <<<<"c", "o", "n", "n", "e", "c", "t">>, connectionString>>,
                       [device_id |-> Undefined, timeout |-> timeout, throw_on_error |-> JsBool(FALSE)])
                /\ ClientTaken(client)

\* the connect command answered: the response
ConnectDeviceConnected ==
    /\ Awaited("connectDevice", "connect")
    /\ LET call == Last(calls)
       IN  Finish(IF ~call.outcome.ok THEN call.outcome
                  ELSE ConnectOutcome(call.outcome.value, tool.l.connectionString))
    /\ calls' = Consume
    /\ UNCHANGED <<hostVars, vcall, adbPath>>

(***************************************************************************)
(* ADBClient.getDeviceInfo, isDeviceOnline, waitForDevice                  *)
(***************************************************************************)

\* the entries of propertyMap, in their order
propertyMap ==
    << [prop |-> <<"r", "o", ".", "p", "r", "o", "d", "u", "c", "t", ".", "m", "o", "d", "e", "l">>, key |-> "model"],
       [prop |-> <<"r", "o", ".", "p", "r", "o", "d", "u", "c", "t", ".", "m", "a", "n", "u", "f", "a", "c", "t", "u", "r", "e", "r">>, key |-> "manufacturer"],
       [prop |-> <<"r", "o", ".", "b", "u", "i", "l", "d", ".", "v", "e", "r", "s", "i", "o", "n", ".", "r", "e", "l", "e", "a", "s", "e">>, key |-> "android_version"],
       [prop |-> <<"r", "o", ".", "b", "u", "i", "l", "d", ".", "v", "e", "r", "s", "i", "o", "n", ".", "s", "d", "k">>, key |-> "api_level"],
       [prop |-> <<"r", "o", ".", "p", "r", "o", "d", "u", "c", "t", ".", "c", "p", "u", ".", "a", "b", "i">>, key |-> "architecture"],
       [prop |-> <<"r", "o", ".", "p", "r", "o", "d", "u", "c", "t", ".", "b", "r", "a", "n", "d">>, key |-> "brand"],
       [prop |-> <<"r", "o", ".", "p", "r", "o", "d", "u", "c", "t", ".", "n", "a", "m", "e">>, key |-> "product"],
       [prop |-> <<"r", "o", ".", "p", "r", "o", "d", "u", "c", "t", ".", "d", "e", "v", "i", "c", "e">>, key |-> "device"] >>

\* The queries in flight at once are bounded: the model issues PropsInFlight
\* of them, from the api_level entry on.
PropsInFlight == 2
SdkEntry == CHOOSE i \in DOMAIN propertyMap : propertyMap[i].key = "api_level"
ModelledProps == SubSeq(propertyMap, SdkEntry, SdkEntry + PropsInFlight - 1)

S_shell == <<"s", "h", "e", "l", "l">>
S_getprop == <<"g", "e", "t", "p", "r", "o", "p">>

\* the number written by decimal digits
RECURSIVE FromDecimal(_)
FromDecimal(digits) ==
    IF digits = <<>> THEN 0
    ELSE 10 * FromDecimal(SubSeq(digits, 1, Len(digits) - 1))
         + (CHOOSE d \in 0..9 : ToDecimal(d) = <<Last(digits)>>)

\* parseInt(value, 10): the leading digits, NaN without any
ParseInt(value) ==
    LET s == TrimStart(value)
        n == CHOOSE k \in 0..Len(s) :
                 /\ \A j \in 1..k : s[j] \in Digits
                 /\ (k < Len(s) => s[k + 1] \notin Digits)
    IN  IF n = 0 THEN JsNonInt("NaN") ELSE JsInt(FromDecimal(SubSeq(s, 1, n)))

NewDeviceInfo(deviceId) ==
    [id |-> deviceId, state |-> <<"d", "e", "v", "i", "c", "e">>, model |-> Undefined, manufacturer |-> Undefined,
     android_version |-> Undefined, api_level |-> JsUndef, architecture |-> Undefined,
     brand |-> Undefined, product |-> Undefined, device |-> Undefined]

\* the body of getDeviceInfo from the deviceInfo object on: all the getprop
\* queries start at once
PropertyCalls(deviceId) ==
    [k \in 1..Len(ModelledProps) |->
        ExecuteRecord("getDeviceInfo." \o ModelledProps[k].key,
            <<S_shell, S_getprop, ModelledProps[k].prop>>,
            [device_id |-> deviceId, timeout |-> JsUndef, throw_on_error |-> JsBool(FALSE)])]
PropertyLocals(l, base, deviceId) ==
    [l EXCEPT !.deviceInfo = NewDeviceInfo(deviceId),
              !.pending = (Len(base) + 1)..(Len(base) + Len(ModelledProps))]
StartProperties(base, deviceId) ==
    /\ calls' = base \o PropertyCalls(deviceId)
    /\ Goto("props", PropertyLocals(tool.l, base, deviceId))

ClientLocals == [deviceInfo |-> Undefined, pending |-> {}, additionalInfo |-> <<>>]

\* client.getDeviceInfo(deviceId) up to its first await
ClientGetDeviceInfo(deviceId) ==
    /\ instance # 0
    /\ tool = ToolIdle
    /\ calls = <<>>
    /\ LET v == validateDeviceId(deviceId)
       IN  IF ~Truthy(deviceId)
           THEN /\ tool' = Invoke("client.getDeviceInfo", "clientDevices", deviceId, ClientLocals)
                /\ ExecuteStart("getDeviceInfo.listDevices", ListDevicesArgs, NoOptions)
           ELSE IF ~v.ok
           THEN /\ tool' = [Invoke("client.getDeviceInfo", "done", deviceId, ClientLocals)
                               EXCEPT !.result = v]
                /\ UNCHANGED calls
           ELSE /\ calls' = PropertyCalls(v.value)
                /\ tool' = Invoke("client.getDeviceInfo", "props", deviceId,
                                  PropertyLocals(ClientLocals, <<>>, v.value))
    /\ UNCHANGED <<hostVars, vcall, adbPath>>

\* listDevices answered for a getDeviceInfo without id: the first device
ClientGetDeviceInfoDevices ==
    /\ Awaited("client.getDeviceInfo", "clientDevices")
    /\ LET devices == listDevices(Last(calls), FALSE)
       IN  IF ~devices.ok THEN Finish(devices) /\ calls' = Consume
           ELSE IF Len(devices.value) = 0
           THEN Finish(Throws("DeviceNotFoundError", "Device not found")) /\ calls' = Consume
           ELSE StartProperties(Consume, devices.value[1].id)
    /\ UNCHANGED <<hostVars, vcall, adbPath>>

\* Mutant: a successful query sets its field even without output.
GetDeviceInfoPropertyAnyOutput(i) ==
    /\ tool # ToolIdle
    /\ tool.pc = "props"
    /\ i \in tool.l.pending
    /\ calls[i].pc = "done"
    /\ LET o == calls[i].outcome
           key == (CHOOSE e \in {ModelledProps[k] : k \in DOMAIN ModelledProps} :
                      calls[i].site = "getDeviceInfo." \o e.key).key
           value == trim(o.value.stdout)
           set == o.ok /\ o.value.success
           deviceInfo == IF ~set THEN tool.l.deviceInfo
                         ELSE IF key = "api_level"
                         THEN [tool.l.deviceInfo EXCEPT !.api_level = ParseInt(value)]
                         ELSE [tool.l.deviceInfo EXCEPT ![key] = value]
       IN  Goto("props", [tool.l EXCEPT !.deviceInfo = deviceInfo, !.pending = @ \ {i}])
    /\ calls' = ConsumeAt(i)
    /\ UNCHANGED <<hostVars, vcall, adbPath>>

\* the callback of one property continues after its execute: the field is
\* set from a successful non-empty output, an error is ignored
GetDeviceInfoProperty(i) ==
    /\ tool # ToolIdle
    /\ tool.pc = "props"
    /\ i \in tool.l.pending
    /\ calls[i].pc = "done"
    /\ LET o == calls[i].outcome
           key == (CHOOSE e \in {ModelledProps[k] : k \in DOMAIN ModelledProps} :
                      calls[i].site = "getDeviceInfo." \o e.key).key
           value == trim(o.value.stdout)
           set == o.ok /\ o.value.success /\ Truthy(o.value.stdout)
           deviceInfo == IF ~set THEN tool.l.deviceInfo
                         ELSE IF key = "api_level"
                         THEN [tool.l.deviceInfo EXCEPT !.api_level = ParseInt(value)]
                         ELSE [tool.l.deviceInfo EXCEPT ![key] = value]
       IN  Goto("props", [tool.l EXCEPT !.deviceInfo = deviceInfo, !.pending = @ \ {i}])
    /\ calls' = ConsumeAt(i)
    /\ UNCHANGED <<hostVars, vcall, adbPath>>

\* Promise.all of client.getDeviceInfo called directly: the DeviceInfo
ClientGetDeviceInfoAll ==
    /\ At("client.getDeviceInfo", "props")
    /\ tool.l.pending = {}
    /\ Finish(Returns(tool.l.deviceInfo))
    /\ UNCHANGED <<hostVars, vcall, adbPath, calls>>

\* client.isDeviceOnline(deviceId) up to the await of listDevices
IsDeviceOnline(deviceId) ==
    /\ instance # 0
    /\ tool = ToolIdle
    /\ calls = <<>>
    /\ tool' = Invoke("client.isDeviceOnline", "devices", deviceId, <<>>)
    /\ ExecuteStart("isDeviceOnline.listDevices", ListDevicesArgs, NoOptions)
    /\ UNCHANGED <<hostVars, vcall, adbPath>>

\* Mutant: the error of listDevices is not caught.
IsDeviceOnlineDevicesRethrow ==
    /\ Awaited("client.isDeviceOnline", "devices")
    /\ LET devices == listDevices(Last(calls), FALSE)
           found == {k \in DOMAIN devices.value : devices.value[k].id = tool.input}
           device == devices.value[CHOOSE k \in found : \A j \in found : k <= j]
       IN  Finish(IF ~devices.ok THEN devices
                  ELSE Returns(IF ~Truthy(tool.input) THEN Len(devices.value) > 0
                          ELSE found # {} /\ device.state = <<"d", "e", "v", "i", "c", "e">>))
    /\ calls' = Consume
    /\ UNCHANGED <<hostVars, vcall, adbPath>>

\* listDevices answered: whether the device is listed as online, false on an error
IsDeviceOnlineDevices ==
    /\ Awaited("client.isDeviceOnline", "devices")
    /\ LET devices == listDevices(Last(calls), FALSE)
           found == {k \in DOMAIN devices.value : devices.value[k].id = tool.input}
           device == devices.value[CHOOSE k \in found : \A j \in found : k <= j]
       IN  Finish(Returns(IF ~devices.ok THEN FALSE
                          ELSE IF ~Truthy(tool.input) THEN Len(devices.value) > 0
                          ELSE found # {} /\ device.state = <<"d", "e", "v", "i", "c", "e">>))
    /\ calls' = Consume
    /\ UNCHANGED <<hostVars, vcall, adbPath>>

DEFAULT_WAIT_TIMEOUT == 30000

\* client.waitForDevice(deviceId, timeout) up to the await of execute
WaitForDevice(deviceId, timeout) ==
    /\ instance # 0
    /\ tool = ToolIdle
    /\ calls = <<>>
    /\ LET v == validateDeviceId(deviceId)
           input == [deviceId |-> deviceId, timeout |-> timeout]
       IN  IF Truthy(deviceId) /\ ~v.ok
           THEN /\ tool' = [Invoke("client.waitForDevice", "done", input, <<>>) EXCEPT !.result = v]
                /\ UNCHANGED calls
           ELSE /\ tool' = Invoke("client.waitForDevice", "wait", input, <<>>)
                /\ ExecuteStart("waitForDevice.wait",
                       IF Truthy(deviceId) THEN <<S_dash_s, v.value, S_wait_for_device>>
                       ELSE <<S_wait_for_device>>,
                       [device_id |-> Undefined,
                        timeout |-> IF timeout = JsUndef THEN JsInt(DEFAULT_WAIT_TIMEOUT) ELSE timeout,
                        throw_on_error |-> JsUndef])
    /\ UNCHANGED <<hostVars, vcall, adbPath>>

\* Mutant: every error of execute is answered with false.
WaitForDeviceWaitedAnyError ==
    /\ Awaited("client.waitForDevice", "wait")
    /\ LET o == Last(calls).outcome
       IN  Finish(IF o.ok THEN Returns(TRUE) ELSE Returns(FALSE))
    /\ calls' = Consume
    /\ UNCHANGED <<hostVars, vcall, adbPath>>

\* execute answered: true, false on a TimeoutError, else the error
WaitForDeviceWaited ==
    /\ Awaited("client.waitForDevice", "wait")
    /\ LET o == Last(calls).outcome
       IN  Finish(IF o.ok THEN Returns(TRUE)
                  ELSE IF o.error = "TimeoutError" THEN Returns(FALSE)
                  ELSE o)
    /\ calls' = Consume
    /\ UNCHANGED <<hostVars, vcall, adbPath>>

(***************************************************************************)
(* getDeviceInfo (tools/adb/device/device-info)                            *)
(***************************************************************************)

\* the end of the longest run of digits of s from position p (p - 1 when none)
DigitRunEnd(s, p) ==
    CHOOSE e \in (p - 1)..Len(s) :
        /\ \A k \in p..e : s[k] \in Digits
        /\ (e < Len(s) => s[e + 1] \notin Digits)

\* sizeResult.stdout.match(/Physical size: (\d+x\d+)/): the group of the
\* leftmost match, or Undefined
S_physical_size == <<"P", "h", "y", "s", "i", "c", "a", "l", " ", "s", "i", "z", "e", ":", " ">>
MatchSize(stdout) ==
    LET from(i) == i + Len(S_physical_size)
        widthEnd(i) == DigitRunEnd(stdout, from(i))
        heightEnd(i) == DigitRunEnd(stdout, widthEnd(i) + 2)
        starts == {i \in 1..Len(stdout) :
                      /\ LitAt(stdout, i, S_physical_size)
                      /\ widthEnd(i) >= from(i)
                      /\ widthEnd(i) + 1 <= Len(stdout)
                      /\ stdout[widthEnd(i) + 1] = "x"
                      /\ heightEnd(i) >= widthEnd(i) + 2}
        first == CHOOSE i \in starts : \A j \in starts : i <= j
    IN  IF starts = {} THEN Undefined
        ELSE SubSeq(stdout, from(first), heightEnd(first))

\* the additional queries of the handler, in their order: the arguments and
\* what is kept of a successful output
AdditionalQueries ==
    << [key |-> "sdk_version", args |-> <<S_shell, S_getprop, <<"r", "o", ".", "b", "u", "i", "l", "d", ".", "v", "e", "r", "s", "i", "o", "n", ".", "s", "d", "k">>>>],
       [key |-> "screen_resolution", args |-> <<S_shell, <<"w", "m">>, <<"s", "i", "z", "e">>>>],
       [key |-> "screen_density", args |-> <<S_shell, <<"w", "m">>, <<"d", "e", "n", "s", "i", "t", "y">>>>],
       [key |-> "battery_level",
        args |-> <<S_shell, <<"d", "u", "m", "p", "s", "y", "s">>, <<"b", "a", "t", "t", "e", "r", "y">>, <<"|">>, <<"g", "r", "e", "p">>, <<"l", "e", "v", "e", "l">>>>] >>

AdditionalValue(key, stdout) ==
    IF key = "sdk_version" THEN trim(stdout)
    ELSE IF key = "screen_resolution" THEN MatchSize(stdout)
    ELSE IF key = "screen_density" THEN MatchRun(stdout, <<"P", "h", "y", "s", "i", "c", "a", "l", " ", "d", "e", "n", "s", "i", "t", "y", ":", " ">>, "Digit")
    ELSE LET level == MatchRun(stdout, <<"l", "e", "v", "e", "l", ":", " ">>, "Digit")
         IN  IF level = Undefined THEN Undefined ELSE level \o <<"%">>


\* getDeviceInfo(input) up to the await of listDevices
GetDeviceInfo(input) ==
    \E client \in {Client} :
    /\ tool = ToolIdle
    /\ calls = <<>>
    /\ LET v == validateDeviceId(input.device_id)
           l == [ClientLocals EXCEPT !.additionalInfo = <<>>]
       IN  IF ~client.result.ok
           THEN ClientMissing(client, "getDeviceInfo", input, l) /\ UNCHANGED calls
           ELSE IF Truthy(input.device_id) /\ ~v.ok
           THEN /\ tool' = [Invoke("getDeviceInfo", "done", input, l)
                               EXCEPT !.result = v, !.probes = client.probes]
                /\ UNCHANGED calls
           ELSE /\ ClientInvoke(client, "getDeviceInfo", "devices", input, l)
                /\ ExecuteStartAs(client, "getDeviceInfoTool.listDevices", ListDevicesArgs, NoOptions)
    /\ ClientTaken(client)

\* listDevices answered: the target device, then client.getDeviceInfo up to
\* its await
GetDeviceInfoDevices ==
    /\ Awaited("getDeviceInfo", "devices")
    /\ LET devices == listDevices(Last(calls), FALSE)
           validatedDeviceId == IF Truthy(tool.input.device_id)
                                THEN validateDeviceId(tool.input.device_id).value
                                ELSE Undefined
           targetDeviceId == IF Truthy(validatedDeviceId) THEN validatedDeviceId
                             ELSE devices.value[1].id
           v == validateDeviceId(targetDeviceId)
       IN  IF ~devices.ok THEN Finish(devices) /\ calls' = Consume
           ELSE IF Len(devices.value) = 0
           THEN Finish(Throws("DeviceNotFoundError", "Device not found")) /\ calls' = Consume
           ELSE IF /\ Truthy(validatedDeviceId)
                   /\ ~\E k \in DOMAIN devices.value : devices.value[k].id = validatedDeviceId
           THEN Finish(Throws("DeviceNotFoundError", "Device not found")) /\ calls' = Consume
           ELSE IF ~v.ok THEN Finish(v) /\ calls' = Consume
           ELSE StartProperties(Consume, v.value)
    /\ UNCHANGED <<hostVars, vcall, adbPath>>

\* client.getDeviceInfo answered: the first additional query
GetDeviceInfoAll ==
    /\ At("getDeviceInfo", "props")
    /\ tool.l.pending = {}
    /\ Goto("additional", tool.l)
    /\ ExecuteStart("getDeviceInfoTool." \o AdditionalQueries[1].key, AdditionalQueries[1].args,
           [device_id |-> tool.l.deviceInfo.id, timeout |-> JsUndef,
            throw_on_error |-> JsBool(FALSE)])
    /\ UNCHANGED <<hostVars, vcall, adbPath>>

\* an additional query answered or failed: its value is kept when it
\* succeeded, then the next query or the response
GetDeviceInfoAdditional ==
    /\ Awaited("getDeviceInfo", "additional")
    /\ LET o == Last(calls).outcome
           n == Len(tool.l.additionalInfo) + 1
           query == AdditionalQueries[n]
           value == IF o.ok /\ o.value.success THEN AdditionalValue(query.key, o.value.stdout)
                    ELSE Undefined
           additionalInfo == Append(tool.l.additionalInfo, value)
       IN  IF n = Len(AdditionalQueries)
           THEN /\ Finish(Returns([deviceInfo |-> tool.l.deviceInfo,
                                   additionalInfo |-> additionalInfo]))
                /\ calls' = Consume
           ELSE /\ Goto("additional", [tool.l EXCEPT !.additionalInfo = additionalInfo])
                /\ ExecuteStartOn(Consume, "getDeviceInfoTool." \o AdditionalQueries[n + 1].key,
                       AdditionalQueries[n + 1].args,
                       [device_id |-> tool.l.deviceInfo.id, timeout |-> JsUndef,
                        throw_on_error |-> JsBool(FALSE)])
    /\ UNCHANGED <<hostVars, vcall, adbPath>>

(***************************************************************************)
(* Invocations of the tool handlers                                        *)
(***************************************************************************)

ApkPaths == {<<"a", ".", "a", "p", "k">>, <<"a", ".", "A", "P", "K">>, <<".", "a", "p", "k">>, <<" ", "a", ".", "a", "p", "k">>, <<"a", "|", ".", "a", "p", "k">>, <<"a", ".", "a", "p">>}
ToolDeviceIds == {Undefined, <<"e", "1">>, <<"e", ";">>}
\* the app handlers are also called with the empty string as device_id
AppDeviceIds == ToolDeviceIds \cup {<<>>}
ToolPackageNames == {<<"d", ".", "o">>, <<"a", ".", "b">>, <<"a">>}
FlagSamples == {JsUndef, JsBool(TRUE)}
Hosts == {<<"h">>, <<"1", ".", "2", ".", "3", ".", "4">>, <<"h", ";">>, <<"-", "h">>}
PortSamples ==
    {JsUndef, JsInt(0 - 1), JsInt(0), JsInt(PortMin), JsInt(PortMax), JsInt(PortMax + 1),
     JsNonInt("1.5"), JsNonInt("NaN")}
ConnectTimeouts == {JsUndef, JsInt(0), JsInt(DefaultMaxTimeout + 1)}

InstallInputs ==
    {[apk_path |-> p, device_id |-> d, replace |-> f, grant_permissions |-> f,
      allow_downgrade |-> f, allow_test_apk |-> f] :
        p \in ApkPaths, d \in AppDeviceIds, f \in FlagSamples}
UninstallInputs ==
    {[package_name |-> n, device_id |-> d, keep_data |-> f] :
        n \in ToolPackageNames, d \in AppDeviceIds, f \in FlagSamples}
PackageInfoInputs ==
    {[package_name |-> n, device_id |-> d] : n \in ToolPackageNames, d \in AppDeviceIds}
ListPackagesInputs ==
    {[device_id |-> d, filter |-> f, show_system |-> s, show_third_party |-> t,
      show_disabled |-> s] :
        d \in AppDeviceIds, f \in {Undefined, <<"a">>}, s \in FlagSamples,
        t \in {JsUndef, JsBool(FALSE)}}
ConnectInputs ==
    {[host |-> h, port |-> p, timeout |-> t] :
        h \in Hosts, p \in PortSamples, t \in ConnectTimeouts}

DeviceInfoInputs == {[device_id |-> d] : d \in ToolDeviceIds \cup {<<" ", "e", "1">>}}
WaitTimeouts == {JsUndef, JsInt(0), JsInt(0 - 1)}
\* the ids isDeviceOnline is called with: left out, empty, listed or not
OnlineCheckIds == ToolDeviceIds \cup {<<>>}

InitTools == vcall = VIdle /\ AdbIdle
NextTools ==
    \/ \E input \in InstallInputs : InstallApp(input)
    \/ \E stat \in StatOutcomes : InstallAppStat(stat)
    \/ InstallAppDevices
    \/ InstallAppInstalled
    \/ InstallAppDumped
    \/ \E input \in UninstallInputs : UninstallApp(input)
    \/ UninstallAppDevices
    \/ UninstallAppUninstalled
    \/ \E input \in PackageInfoInputs : GetPackageInfo(input)
    \/ GetPackageInfoDevices
    \/ GetPackageInfoDumped
    \/ \E input \in ListPackagesInputs : ListPackages(input)
    \/ ListPackagesDevices
    \/ ListPackagesListed
    \/ \E input \in ConnectInputs : ConnectDevice(input)
    \/ ConnectDeviceConnected
    \/ \E input \in DeviceInfoInputs : GetDeviceInfo(input)
    \/ GetDeviceInfoDevices
    \/ GetDeviceInfoAll
    \/ GetDeviceInfoAdditional
    \/ \E d \in ToolDeviceIds : ClientGetDeviceInfo(d)
    \/ ClientGetDeviceInfoDevices
    \/ ClientGetDeviceInfoAll
    \/ \E i \in DOMAIN calls : GetDeviceInfoProperty(i)
    \/ \E d \in OnlineCheckIds : IsDeviceOnline(d)
    \/ IsDeviceOnlineDevices
    \/ \E d \in ToolDeviceIds, t \in WaitTimeouts : WaitForDevice(d, t)
    \/ WaitForDeviceWaited
    \/ ToolReturn
    \/ \E args \in ExecArgs, d \in DeviceIdSamples, t \in TimeoutSamples,
          e \in ThrowOnErrorSamples :
          ExecuteCall(args, [device_id |-> d, timeout |-> t, throw_on_error |-> e])
    \/ ExecuteReturn
    \/ ChildExits
    \/ ExecTimeouts
    \/ ExecuteSettles
SpecTools == InitTools /\ [][NextTools]_vars

(***************************************************************************)
(* Calls of the validators: the input is drawn in the initial state, the   *)
(* action applies the function.                                            *)
(***************************************************************************)

MaxIdLen == 2
MaxPkgLen == 4
MaxCmdAtoms == 4
MaxSanLen == 3

\* The metacharacters of the denylist: ; & | grave $ ( ) { } [ ] < > ' " backslash
Denylist ==
    {";", "&", "|", Grave, "$", "(", ")", "{", "}", "[", "]", "<", ">", "'", "\"", "\\"}

IdStrings == StringsUpTo(Denylist \cup {"a", " ", ".", "/", ":"}, MaxIdLen)
PkgStrings == StringsUpTo({"d", "o", "D", "1", "_", ".", "-"}, MaxPkgLen)
SanStrings == StringsUpTo({"\\", "\"", "'", "$", Grave, "!", "\n", "\r", "a"}, MaxSanLen)

\* Shell commands are built from these fragments.
CmdAtoms ==
    { <<"r","m">>, <<"-","r","f">>, <<"d","d">>, <<"m","k","f","s">>, <<"l","s">>,
      <<">">>, <<"/","d","e","v","/">>, <<"$","(">>, <<")">>, <<Grave>>, <<";">>, <<" ">> }

RECURSIVE Flatten(_)
Flatten(parts) == IF parts = <<>> THEN <<>> ELSE Head(parts) \o Flatten(Tail(parts))

CmdStrings == {Flatten(a) : a \in StringsUpTo(CmdAtoms, MaxCmdAtoms)}
AllowLists == {[given |-> FALSE], [given |-> TRUE, list |-> <<>>],
               [given |-> TRUE, list |-> << <<"l","s">> >>]}


ApplyValidateDeviceId ==
    /\ vcall.fn = "validateDeviceId" /\ ~vcall.done
    /\ vcall' = VDone(validateDeviceId(vcall.arg))
    /\ UNCHANGED adbVars

ApplyValidateFilePath ==
    /\ vcall.fn = "validateFilePath" /\ ~vcall.done
    /\ vcall' = VDone(validateFilePath(vcall.arg, vcall.opt))
    /\ UNCHANGED adbVars

ApplyValidatePackageName ==
    /\ vcall.fn = "validatePackageName" /\ ~vcall.done
    /\ vcall' = VDone(validatePackageName(vcall.arg))
    /\ UNCHANGED adbVars

ApplyValidateShellCommand ==
    /\ vcall.fn = "validateShellCommand" /\ ~vcall.done
    /\ vcall' = VDone(validateShellCommand(vcall.arg, vcall.opt))
    /\ UNCHANGED adbVars

ApplySanitizeForShell ==
    /\ vcall.fn = "sanitizeForShell" /\ ~vcall.done
    /\ vcall' = VDone(Returns(sanitizeForShell(vcall.arg)))
    /\ UNCHANGED adbVars

InitDeviceFile ==
    /\ AdbIdle
    /\ vcall \in {VCall("validateDeviceId", s, TRUE) : s \in IdStrings}
                 \cup {VCall("validateFilePath", s, a) : s \in IdStrings, a \in BOOLEAN}
NextDeviceFile == ApplyValidateDeviceId \/ ApplyValidateFilePath
SpecDeviceFile == InitDeviceFile /\ [][NextDeviceFile]_vars

InitPackage ==
    /\ AdbIdle
    /\ vcall \in {VCall("validatePackageName", s, TRUE) : s \in PkgStrings}
NextPackage == ApplyValidatePackageName
SpecPackage == InitPackage /\ [][NextPackage]_vars

InitShell ==
    /\ AdbIdle
    /\ vcall \in {VCall("validateShellCommand", s, a) : s \in CmdStrings, a \in AllowLists}
NextShell == ApplyValidateShellCommand
SpecShell == InitShell /\ [][NextShell]_vars

InitSanitize ==
    /\ AdbIdle
    /\ vcall \in {VCall("sanitizeForShell", s, TRUE) : s \in SanStrings}
NextSanitize == ApplySanitizeForShell
SpecSanitize == InitSanitize /\ [][NextSanitize]_vars

PortCallSamples ==
    {JsInt(n) : n \in {0 - 1, 0, PortMin, PortMin + 1, 5555, PortMax - 1, PortMax,
                       PortMax + 1, 70000}}
        \cup {JsNonInt("1.5"), JsNonInt("NaN"), JsNonInt("Infinity"), JsNonInt("'80'")}

ApplyValidatePort ==
    /\ vcall.fn = "validatePort" /\ ~vcall.done
    /\ vcall' = VDone(validatePort(vcall.arg))
    /\ UNCHANGED adbVars

\* validatePort called on its own, beside invocations of connectDevice
InitConnect ==
    /\ AdbIdle
    /\ vcall \in {VCall("validatePort", p, TRUE) : p \in PortCallSamples}
NextConnect ==
    \/ ApplyValidatePort
    \/ \E input \in ConnectInputs : ConnectDevice(input)
    \/ ConnectDeviceConnected
    \/ ToolReturn
    \/ ChildExits
    \/ ExecTimeouts
    \/ ExecuteSettles
SpecConnect == InitConnect /\ [][NextConnect]_vars

(***************************************************************************)
(* Claims about the validators                                             *)
(***************************************************************************)

HasAny(s, chars) == \E i \in 1..Len(s) : s[i] \in chars
ThrowsValidationError(r) == ~r.ok /\ r.error = "ValidationError"

PackageGrammar(s) ==
    LET segs == split(s, ".")
    IN  /\ Len(segs) >= 2
        /\ \A i \in 1..Len(segs) :
              /\ segs[i] # <<>>
              /\ segs[i][1] \in Letters
              /\ \A k \in 2..Len(segs[i]) : segs[i][k] \in WordChars

SegmentsOf(s) == {split(s, ".")[i] : i \in 1..Len(split(s, "."))}

\* C3, as stated: a string that matches the package-name grammar and has no
\* segment that is a member of the reserved-keyword list is returned unchanged.
C3_Original ==
    (/\ vcall.done
     /\ PackageGrammar(vcall.arg)
     /\ \A seg \in SegmentsOf(vcall.arg) : seg \notin javaKeywords)
        => vcall.result = Returns(vcall.arg)

\* C3, amended: a string that matches the package-name grammar and has no
\* segment whose lower-cased form is a member of the reserved-keyword list is
\* returned unchanged.
C3_Amended ==
    (/\ vcall.done
     /\ PackageGrammar(vcall.arg)
     /\ \A seg \in SegmentsOf(vcall.arg) : toLowerCase(seg) \notin javaKeywords)
        => vcall.result = Returns(vcall.arg)

C3_Witness ==
    /\ vcall.done
    /\ vcall.arg = <<"d", "_", ".", "D">>
    /\ vcall.result = Returns(vcall.arg)

\* The dangerous patterns as the claim names them, wherever they occur: rm -rf, a
\* dd invocation, a redirect into /dev/, mkfs, command substitution.
ClaimedDangerous(c) ==
    LET s == toLowerCase(c)
    IN  \/ \E i \in 1..Len(s) :
              /\ LitAt(s, i, <<"r","m">>)
              /\ \E k \in WsPlus(s, i + 2) : LitAt(s, k, <<"-","r","f">>)
        \/ \E i \in 1..Len(s) : LitAt(s, i, <<"d","d">>) /\ WsPlus(s, i + 2) # {}
        \/ patternDev(c)
        \/ includes(s, <<"m","k","f","s">>)
        \/ patternDollarParen(c)
        \/ patternBackticks(c)

\* C4: validateShellCommand throws ValidationError for every command that
\* contains a dangerous pattern, wherever it occurs and with or without an
\* allow-list, and for every command whose first token is not in a non-empty
\* allow-list.
C4_Claim ==
    vcall.done =>
        LET trimmed == trim(vcall.arg)
        IN  /\ ClaimedDangerous(trimmed) => ThrowsValidationError(vcall.result)
            /\ (/\ trimmed # <<>>
                /\ vcall.opt.given
                /\ Len(vcall.opt.list) > 0
                /\ \A i \in 1..Len(vcall.opt.list) : vcall.opt.list[i] # splitWs(trimmed)[1])
                   => ThrowsValidationError(vcall.result)

\* The characters sanitizeForShell escapes with one backslash.
Escaped == {"$", Grave, "\"", "'", "!"}

RECURSIVE BackslashesBefore(_, _)
BackslashesBefore(s, i) ==
    IF i > 1 /\ s[i - 1] = "\\" THEN 1 + BackslashesBefore(s, i - 1) ELSE 0

EscapeChar(c) ==
    CASE c = "\\" -> <<"\\", "\\">>
      [] c \in Escaped -> <<"\\", c>>
      [] c = "\n" -> <<"\\", "n">>
      [] c = "\r" -> <<"\\", "r">>
      [] OTHER -> <<c>>

RECURSIVE EscapeEach(_)
EscapeEach(s) == IF s = <<>> THEN <<>> ELSE EscapeChar(Head(s)) \o EscapeEach(Tail(s))

\* C5: in the output of sanitizeForShell every $, grave accent, double quote,
\* single quote and ! is preceded by an odd number of backslashes, every
\* backslash of the input is doubled (the output is the input with each
\* character replaced by its escape), and no raw newline or carriage return
\* is left.
C5_Sanitize ==
    vcall.done =>
        LET out == vcall.result.value
        IN  /\ \A i \in 1..Len(out) :
                  out[i] \in Escaped => BackslashesBefore(out, i) % 2 = 1
            /\ out = EscapeEach(vcall.arg)
            /\ \A i \in 1..Len(out) : out[i] \notin {"\n", "\r"}

C5_Witness ==
    /\ vcall.done
    /\ vcall.arg = <<"\\", "$", "\n">>
    /\ vcall.result.value = <<"\\", "\\", "\\", "$", "\\", "n">>

(***************************************************************************)
(* Claims about ADBClient.execute                                          *)
(***************************************************************************)

Done(c) == c.pc = "done"
Failed(c) == c.child.state = "settled" /\ c.child.result.rejected
KilledByTimeout(c) == Failed(c) /\ c.child.result.killed = JsBool(TRUE)
Threw(c, err) == ~c.outcome.ok /\ c.outcome.error = err
Returned(c) == c.outcome.ok

\* C7: when exec reports the command as killed by the timeout, execute throws
\* TimeoutError, whatever throw_on_error is and whatever was captured, and
\* returns no result object.
C7_KilledThrowsTimeout ==
    \A i \in DOMAIN calls :
        (Done(calls[i]) /\ KilledByTimeout(calls[i])) => Threw(calls[i], "TimeoutError")

\* a call killed by the timeout with throw_on_error = false and a captured
\* stderr that names a missing device
C7_Witness ==
    \E i \in DOMAIN calls :
        /\ Done(calls[i]) /\ KilledByTimeout(calls[i])
        /\ ~calls[i].prep.throw_on_error
        /\ includes(toLowerCase(calls[i].child.result.stderr), S_device_not_found)
        /\ Threw(calls[i], "TimeoutError")

\* the stderr of a failure as the classification reads it
ClassifiedStderr(c) ==
    toLowerCase(trim(IF c.child.result.stderr = Undefined THEN <<>> ELSE c.child.result.stderr))

\* C8: a failure that is not a timeout has one outcome, by priority: stderr
\* names a missing device -> DeviceNotFoundError; else an offline device ->
\* DeviceOfflineError; else throw_on_error -> ADBError; else the failed result
\* is returned.  throw_on_error = false does not silence the first two.
C8_FailurePriority ==
    \A i \in DOMAIN calls :
        (Done(calls[i]) /\ Failed(calls[i]) /\ ~KilledByTimeout(calls[i])) =>
            LET c == calls[i]
                nf == includes(ClassifiedStderr(c), S_device_not_found)
                off == includes(ClassifiedStderr(c), S_device_offline)
            IN  /\ nf => Threw(c, "DeviceNotFoundError")
                /\ (~nf /\ off) => Threw(c, "DeviceOfflineError")
                /\ (~nf /\ ~off /\ c.prep.throw_on_error) => Threw(c, "ADBError")
                /\ (~nf /\ ~off /\ ~c.prep.throw_on_error) =>
                       (Returned(c) /\ ~c.outcome.value.success)

\* a failure with throw_on_error = false whose stderr names both an offline
\* and a missing device
C8_Witness ==
    \E i \in DOMAIN calls :
        /\ Done(calls[i]) /\ Failed(calls[i]) /\ ~KilledByTimeout(calls[i])
        /\ ~calls[i].prep.throw_on_error
        /\ includes(ClassifiedStderr(calls[i]), S_device_offline)
        /\ includes(ClassifiedStderr(calls[i]), S_device_not_found)
        /\ Threw(calls[i], "DeviceNotFoundError")

\* C10: a call of execute whose timeout validateTimeout accepted eventually
\* completes, also when the subprocess never exits by itself.
C10_Completes ==
    (calls # <<>> /\ calls[1].pc = "awaiting") ~> (calls = <<>> \/ calls[1].pc = "done")

(***************************************************************************)
(* Claims about the handlers                                               *)
(***************************************************************************)

AppHandlers == {"installApp", "uninstallApp", "listPackages", "getPackageInfo"}
IssuedBy(name) == tool # ToolIdle /\ tool.name = name
\* whether a call ended in a thrown error or a result with success = false
CallFailed(c) ==
    IF c.pc = "consumed" THEN c.outcome.failed
    ELSE c.pc = "done" /\ ~(c.outcome.ok /\ c.outcome.value.success)

\* C1: in installApp, uninstallApp, listPackages and getPackageInfo, the
\* device_id, the file path and the package name given by the caller pass
\* their validators before they are placed in the arguments of execute, and
\* the arguments hold the values the validators return.
C1_ValidatedArguments ==
    (tool # ToolIdle /\ tool.name \in AppHandlers) =>
        \A i \in DOMAIN calls :
            calls[i].args # ListDevicesArgs =>
                /\ Truthy(tool.input.device_id) =>
                       LET v == validateDeviceId(tool.input.device_id)
                       IN  v.ok /\ calls[i].args[2] = v.value
                /\ tool.name = "installApp" =>
                       LET v == validateFilePath(tool.input.apk_path, TRUE)
                       IN  v.ok /\ Last(calls[i].args) = v.value
                /\ tool.name \in {"uninstallApp", "getPackageInfo"} =>
                       LET v == validatePackageName(tool.input.package_name)
                       IN  v.ok /\ Last(calls[i].args) = v.value

\* C6: validatePort returns every integer from 1 to 65535 and throws
\* ValidationError for every other integer and every non-integer;
\* connectDevice rejects such a port without a call of execute.
C6_PortRange ==
    /\ (vcall.fn = "validatePort" /\ vcall.done) =>
           IF vcall.arg.t = "int" /\ 1 <= vcall.arg.v /\ vcall.arg.v <= 65535
           THEN vcall.result = Returns(vcall.arg)
           ELSE ThrowsValidationError(vcall.result)
    /\ (/\ IssuedBy("connectDevice")
        /\ tool.input.port # JsUndef
        /\ ~(tool.input.port.t = "int" /\ 1 <= tool.input.port.v /\ tool.input.port.v <= 65535)) =>
           /\ calls = <<>>
           /\ tool.pc = "done"
           /\ ThrowsValidationError(tool.result)

\* validatePort has returned 65535 and connectDevice has rejected 65536
C6_Witness ==
    /\ vcall.fn = "validatePort" /\ vcall.done
    /\ vcall.arg = JsInt(65535) /\ vcall.result = Returns(JsInt(65535))
    /\ IssuedBy("connectDevice") /\ tool.input.port = JsInt(65536)
    /\ tool.pc = "done" /\ ThrowsValidationError(tool.result) /\ calls = <<>>

\* what execute does with the options of a call before it spawns anything
OptionsRejected(c) ==
    \/ ~validateTimeout(IF c.options.timeout = JsUndef THEN JsInt(30000) ELSE c.options.timeout,
                        300000).ok
    \/ Truthy(c.options.device_id) /\ ~validateDeviceId(c.options.device_id).ok

\* each call of execute spawns at most one subprocess, none when its timeout
\* or device_id is rejected, and has an outcome exactly when it is over
OneSpawnOneOutcome ==
    \A i \in DOMAIN calls :
        /\ calls[i].spawned <= 1
        /\ OptionsRejected(calls[i]) =>
               /\ calls[i].spawned = 0
               /\ calls[i].child.state \notin {"running", "settled"}
               /\ calls[i].pc # "awaiting"
        /\ ~OptionsRejected(calls[i]) => calls[i].spawned = 1
        /\ (calls[i].pc = "awaiting") <=> (calls[i].outcome = NoResult)

\* an earlier call of the invocation that failed and a later call with the
\* same command line
Reissued(i, j) ==
    /\ i < j
    /\ CallFailed(calls[i])
    /\ calls[i].prep.ok /\ calls[j].prep.ok
    /\ calls[i].prep.command = calls[j].prep.command

OutcomeKept ==
    \A i \in DOMAIN calls :
        (calls[i].pc = "done" /\ i \in DOMAIN calls' /\ calls'[i].pc = "done") =>
            calls'[i].outcome = calls[i].outcome

MaxDeviceLines == 2

S_listing_header == <<"L", "i", "s", "t", " ", "o", "f", " ", "d", "e", "v", "i", "c", "e", "s", " ", "a", "t", "t", "a", "c", "h", "e", "d">>
S_device == <<"d", "e", "v", "i", "c", "e">>

\* lines adb prints after the header: blank ones, a serial alone, the states
\* of the transports, key:value columns
DeviceLineSamples ==
    { <<>>,
      <<" ", " ", " ">>,
      <<"e", "1", " ", "d", "e", "v", "i", "c", "e", " ", "p", "r", "o", "d", "u", "c", "t", ":", "x", " ", "m", "o", "d", "e", "l", ":", "y", " ", "d", "e", "v", "i", "c", "e", ":", "z", " ", "t", "r", "a", "n", "s", "p", "o", "r", "t", "_", "i", "d", ":", "1">>,
      <<"e", "2", "\t", "o", "f", "f", "l", "i", "n", "e">>,
      <<"e", "3">>,
      <<"e", "4", " ", "u", "n", "a", "u", "t", "h", "o", "r", "i", "z", "e", "d", " ", "u", "s", "b", ":", "1", "-", "1", " ", "m", "o", "d", "e", "l", ":", "m", ":", "n">>,
      <<"e", "5", " ", " ", " ", "d", "e", "v", "i", "c", "e", " ", "m", "o", "d", "e", "l", ":", " ", "d", "e", "v", "i", "c", "e", ":", "d", " ", "m", "o", "d", "e", "l", ":", "q", "\r">>,
      <<"e", "6", " ", "a", "u", "t", "h", "o", "r", "i", "z", "i", "n", "g", " ", "t", "r", "a", "n", "s", "p", "o", "r", "t", "_", "i", "d", ":", "2">> }

ListingsPrinted ==
    {join(<<S_listing_header>> \o ls, <<"\n">>) \o <<"\n", "\n">> :
        ls \in StringsUpTo(DeviceLineSamples, MaxDeviceLines)}

\* the call of execute(['devices', '-l']) made by listDevices, once adb has
\* exited with status 0 and this text on stdout
ListDevicesCall(stdout) ==
    LET prep == ExecutePrepare(adbPath, ListDevicesArgs, NoOptions)
    IN  [outcome |-> ExecuteSettleOutcome(prep,
                        [rejected |-> FALSE, stdout |-> stdout, stderr |-> <<>>], JsInt(0))]

ApplyListDevices ==
    /\ vcall.fn = "listDevices" /\ ~vcall.done
    /\ vcall' = VDone(listDevices(ListDevicesCall(vcall.arg), vcall.opt))
    /\ UNCHANGED adbVars

InitListDevices ==
    /\ AdbIdle
    /\ vcall \in {VCall("listDevices", s, b) : s \in ListingsPrinted, b \in BOOLEAN}
NextListDevices == ApplyListDevices
SpecListDevices == InitListDevices /\ [][NextListDevices]_vars

(***************************************************************************)
(* Claims about listDevices                                                *)
(***************************************************************************)

\* the tokens of a line: its maximal runs of characters that are not white
\* space, from left to right
TokenSpans(line) ==
    {<<a, b>> \in (1..Len(line)) \X (1..Len(line)) :
        /\ a <= b
        /\ \A k \in a..b : line[k] \notin Whitespace
        /\ (a > 1 => line[a - 1] \in Whitespace)
        /\ (b < Len(line) => line[b + 1] \in Whitespace)}
TokenAt(line, n) ==
    LET span == CHOOSE s \in TokenSpans(line) :
                    Cardinality({t \in TokenSpans(line) : t[1] < s[1]}) = n - 1
    IN  SubSeq(line, span[1], span[2])
TokenCount(line) == Cardinality(TokenSpans(line))

\* the value a key:value token gives: the text between its first colon and
\* the next one, when the token starts with the key and that text is not empty
ValueOfToken(token, key) ==
    LET from == Len(key) + 2
        to == CHOOSE j \in (from - 1)..Len(token) :
                  /\ \A k \in from..j : token[k] # ":"
                  /\ (j < Len(token) => token[j + 1] = ":")
    IN  IF LitAt(token, 1, key \o <<":">>) /\ Len(token) >= from /\ token[from] # ":"
        THEN SubSeq(token, from, to) ELSE Undefined

\* the value of the last token of the line, from the third on, that gives one
ColumnOf(line, key) ==
    LET giving == {n \in 3..TokenCount(line) : ValueOfToken(TokenAt(line, n), key) # Undefined}
    IN  IF giving = {} THEN Undefined
        ELSE ValueOfToken(TokenAt(line,
                 CHOOSE n \in giving : \A o \in giving : o <= n), key)

DeviceOfLine(line) ==
    [id |-> TokenAt(line, 1), state |-> TokenAt(line, 2),
     product |-> ColumnOf(line, <<"p", "r", "o", "d", "u", "c", "t">>), model |-> ColumnOf(line, <<"m", "o", "d", "e", "l">>),
     device |-> ColumnOf(line, <<"d", "e", "v", "i", "c", "e">>)]

IsOnline(d) == d.state = S_device

ListDevicesDone == vcall.fn = "listDevices" /\ vcall.done

\* C11: listDevices drops the first line of the output and turns every other
\* line with at least two tokens into one DeviceInfo, in output order: id is
\* the first token, state the second, product, model and device come from
\* the key:value tokens.  listDevices(false) is the subsequence of
\* listDevices(true) whose state is 'device'.
C11_ListDevices ==
    ListDevicesDone =>
        LET lines == split(trim(vcall.arg), "\n")
            all == listDevices(ListDevicesCall(vcall.arg), TRUE)
            kept == {i \in 2..Len(lines) : TokenCount(lines[i]) >= 2}
            nth(k) == CHOOSE i \in kept : Cardinality({j \in kept : j < i}) = k - 1
        IN  /\ all.ok /\ vcall.result.ok
            /\ Len(all.value) = Cardinality(kept)
            /\ \A k \in 1..Len(all.value) : all.value[k] = DeviceOfLine(lines[nth(k)])
            /\ vcall.result.value =
                   IF vcall.opt THEN all.value ELSE SelectSeq(all.value, IsOnline)

\* a listing with a blank line, a line of one token and devices of both
\* kinds has been parsed without the offline devices
C11_Witness ==
    /\ ListDevicesDone /\ ~vcall.opt
    /\ Len(vcall.result.value) = 1
    /\ Len(listDevices(ListDevicesCall(vcall.arg), TRUE).value) = 2
    /\ vcall.result.value[1].model # Undefined

\* type DeviceState
DeviceState ==
    {S_device, <<"o", "f", "f", "l", "i", "n", "e">>, <<"u", "n", "a", "u", "t", "h", "o", "r", "i", "z", "e", "d">>, <<"b", "o", "o", "t", "l", "o", "a", "d", "e", "r">>, <<"r", "e", "c", "o", "v", "e", "r", "y">>}

\* C12: every DeviceInfo that listDevices returns, with or without the
\* offline devices, has a non-empty id and a state of type DeviceState,
\* whatever adb printed.
C12_DeviceInfoValid ==
    ListDevicesDone =>
        \A k \in 1..Len(vcall.result.value) :
            /\ vcall.result.value[k].id # <<>>
            /\ vcall.result.value[k].state \in DeviceState

(***************************************************************************)
(* Claims about the client operations                                      *)
(***************************************************************************)

InProps == tool # ToolIdle /\ tool.pc = "props"
PropertyKeys == {ModelledProps[k].key : k \in DOMAIN ModelledProps}
PropertyCallsOf(key) == {i \in DOMAIN calls : calls[i].site = "getDeviceInfo." \o key}
\* a field of DeviceInfo that is not set: api_level is the number among them
NotSet(key) == IF key = "api_level" THEN JsUndef ELSE Undefined
SucceededWithOutput(o) == o.ok /\ o.value.success /\ o.value.stdout # <<>>

\* while the queries are out: each has been issued once, id and state are
\* set, and the field of a query whose callback has not run is not set
QueriesOut ==
    InProps =>
        /\ tool.l.deviceInfo.id # <<>> /\ tool.l.deviceInfo.state = S_device
        /\ \A key \in PropertyKeys :
              /\ Cardinality(PropertyCallsOf(key)) = 1
              /\ \A i \in PropertyCallsOf(key) :
                    /\ (i \in tool.l.pending) = (calls[i].pc # "consumed")
                    /\ (i \in tool.l.pending) => tool.l.deviceInfo[key] = NotSet(key)

\* the callback of query i has run in this step: its field is set, to the
\* output or for api_level to the number it starts with, exactly when the
\* query succeeded with output, and no other field changes
CallbackRan(i) ==
    /\ calls[i].pc = "done"
    /\ tool' = [tool EXCEPT !.l.pending = @ \ {i}, !.l.deviceInfo = tool'.l.deviceInfo]
    /\ \A key \in DOMAIN tool.l.deviceInfo :
          IF i \in PropertyCallsOf(key) /\ SucceededWithOutput(calls[i].outcome)
          THEN tool'.l.deviceInfo[key] =
                   (IF key = "api_level" THEN ParseInt(calls[i].outcome.value.stdout)
                    ELSE calls[i].outcome.value.stdout)
          ELSE tool'.l.deviceInfo[key] = tool.l.deviceInfo[key]

\* getDeviceInfo has returned in this step: every query had settled and its
\* callback had run, and the DeviceInfo is returned, not an error
AllSettledReturned ==
    /\ tool.l.pending = {}
    /\ \/ tool' = [tool EXCEPT !.pc = "done", !.result = Returns(tool.l.deviceInfo)]
       \/ /\ tool'.name = "getDeviceInfo" /\ tool'.pc # "done"
          /\ tool'.l.deviceInfo = tool.l.deviceInfo

\* C13: getDeviceInfo issues its getprop queries together and returns only
\* after all have settled; whichever queries fail and in whatever order they
\* complete, the DeviceInfo returned has id and state set and exactly the
\* fields of the queries that succeeded with non-empty output, and no failed
\* query makes it throw.
C13_DeviceInfoFromQueries ==
    /\ []QueriesOut
    /\ [][InProps => \/ tool' = tool
                     \/ \E i \in tool.l.pending : CallbackRan(i)
                     \/ AllSettledReturned]_vars

\* getDeviceInfo returned a DeviceInfo after the api_level query failed and
\* another query gave a value
C13_Witness ==
    /\ tool # ToolIdle /\ tool.name = "client.getDeviceInfo" /\ tool.pc = "done"
    /\ tool.result.ok
    /\ tool.result.value.api_level = JsUndef
    /\ \E key \in PropertyKeys : tool.result.value[key] # NotSet(key)
    /\ \E i \in PropertyCallsOf("api_level") : calls[i].outcome.failed

\* the lines of a listing that show a device in state 'device': those after
\* the first line whose second token is 'device'
OnlineLines(stdout) ==
    LET lines == split(stdout, "\n")
    IN  {lines[i] : i \in {j \in 2..Len(lines) :
                              TokenCount(lines[j]) >= 2 /\ TokenAt(lines[j], 2) = S_device}}

\* isDeviceOnline has returned in this step, after listDevices gave outcome o
OnlineAnswered == At("client.isDeviceOnline", "devices") /\ tool'.pc = "done"
ListingFailed(o) == ~o.ok
AnyOnline(o) == OnlineLines(o.value.stdout) # {}
OnlineWithId(o, id) == \E line \in OnlineLines(o.value.stdout) : TokenAt(line, 1) = id

\* C14 as stated: isDeviceOnline never throws; it returns false when listing
\* the devices fails; without an id it returns true iff a device is listed,
\* and with an id iff a listed device has that id and state 'device'.
C14_Original ==
    [][OnlineAnswered =>
          LET o == Last(calls).outcome
          IN  /\ tool'.result.ok
              /\ tool'.result.value =
                     (IF ListingFailed(o) THEN FALSE
                      ELSE IF tool.input = Undefined THEN AnyOnline(o)
                      ELSE OnlineWithId(o, tool.input))]_vars

\* C14 amended: isDeviceOnline never throws; it returns false when listing
\* the devices fails; without an id, or with the empty string as id, it
\* returns true iff some device is listed in state 'device'; with a
\* non-empty id it returns true iff a device listed in state 'device' has
\* that id.
C14_Amended ==
    [][OnlineAnswered =>
          LET o == Last(calls).outcome
          IN  /\ tool'.result.ok
              /\ tool'.result.value =
                     (IF ListingFailed(o) THEN FALSE
                      ELSE IF tool.input \in {Undefined, <<>>} THEN AnyOnline(o)
                      ELSE OnlineWithId(o, tool.input))]_vars

\* isDeviceOnline answered false for a device that is listed, but offline
C14_Witness ==
    /\ tool # ToolIdle /\ tool.name = "client.isDeviceOnline" /\ tool.pc = "done"
    /\ tool.input = <<"e", "1">>
    /\ tool.result = Returns(FALSE)
    /\ ~Last(calls).outcome.failed

\* waitForDevice has returned in this step, after execute gave its outcome
WaitAnswered == At("client.waitForDevice", "wait") /\ tool'.pc = "done"

\* C15: waitForDevice returns true when 'wait-for-device' succeeds, false
\* exactly when execute throws TimeoutError, and passes every other error on
\* unchanged: ADBError, DeviceNotFoundError, DeviceOfflineError and the
\* ValidationError of the timeout from execute, the ValidationError of the
\* device id before execute is called.
C15_WaitForDevice ==
    /\ [](At("client.waitForDevice", "done") /\ calls = <<>>
              => tool.result = validateDeviceId(tool.input.deviceId) /\ ~tool.result.ok)
    /\ [][WaitAnswered =>
             LET o == Last(calls).outcome
             IN  /\ (tool'.result = Returns(TRUE)) = (o.ok /\ o.value.success)
                 /\ (tool'.result = Returns(FALSE)) = (~o.ok /\ o.error = "TimeoutError")
                 /\ (~o.ok /\ o.error # "TimeoutError") => tool'.result = o
                 /\ ~o.ok => o.error \in {"TimeoutError", "ADBError", "DeviceNotFoundError",
                                          "DeviceOfflineError", "ValidationError"}]_vars

\* waitForDevice passed on the DeviceOfflineError of execute
C15_Witness ==
    /\ At("client.waitForDevice", "done")
    /\ calls # <<>>
    /\ ~tool.result.ok /\ tool.result.error = "DeviceOfflineError"

(***************************************************************************)
(* Claims about the path resolver                                          *)
(***************************************************************************)

\* the candidates of the claim, in its order: what the PATH lookup printed,
\* platform-tools/adb and adb.exe under ANDROID_HOME and under
\* ANDROID_SDK_ROOT, the common install paths of the platform
SdkCandidates(dir) ==
    IF ~Truthy(dir) THEN <<>>
    ELSE <<pathJoin(<<dir, S_platform_tools, S_adb>>),
           pathJoin(<<dir, S_platform_tools, S_adb_exe>>)>>
Candidates(m) ==
    (IF m.which.ok /\ trim(m.which.stdout) # <<>> THEN <<trim(m.which.stdout)>> ELSE <<>>)
        \o SdkCandidates(m.env.ANDROID_HOME)
        \o SdkCandidates(m.env.ANDROID_SDK_ROOT)
        \o commonPaths(m)
ExecutableCandidates(m) == {k \in DOMAIN Candidates(m) : Candidates(m)[k] \in m.runs}

\* this step is a call of resolveADBPath
Resolved ==
    /\ Len(resolves') = Len(resolves) + 1
    /\ Last(resolves').op = "resolveADBPath"

\* C16: with an empty cache resolveADBPath returns the first executable
\* candidate, in the order PATH lookup, ANDROID_HOME and ANDROID_SDK_ROOT,
\* common install paths, and throws ADBError only when no candidate is
\* executable.
C16_FirstExecutableCandidate ==
    [][(Resolved /\ cachedADBPath = Null) =>
          LET able == ExecutableCandidates(machine)
              first == CHOOSE k \in able : \A j \in able : k <= j
              answer == Last(resolves').result
          IN  IF able = {} THEN ~answer.ok /\ answer.error = "ADBError"
              ELSE answer = Returns(Candidates(machine)[first])]_vars

IsResolve(i) == resolves[i].op = "resolveADBPath"
NoClearBetween(i, j) == \A k \in (i + 1)..(j - 1) : resolves[k].op # "clearADBPathCache"

\* C17: over any sequence of resolveADBPath and clearADBPathCache calls,
\* once a call has returned a path every later call returns that path
\* without probing or spawning anything, until clearADBPathCache is called;
\* a call that throws leaves the cache empty, so the next call probes again.
C17_Memoized ==
    /\ \A i, j \in DOMAIN resolves :
          (i < j /\ IsResolve(i) /\ IsResolve(j) /\ resolves[i].result.ok
                 /\ NoClearBetween(i, j))
              => resolves[j].result = resolves[i].result /\ resolves[j].probes = <<>>
    /\ \A j \in DOMAIN resolves :
          (IsResolve(j) /\ (j = 1 \/ ~IsResolve(j - 1) \/ ~resolves[j - 1].result.ok))
              => resolves[j].probes # <<>>
    /\ (resolves # <<>> /\ IsResolve(Len(resolves)) /\ ~Last(resolves).result.ok)
              => cachedADBPath = Null

\* adb was resolved, then removed from the machine, and the next call still
\* answered the cached path without a probe; then the cache was cleared
C17_Witness ==
    /\ Len(resolves) = 3
    /\ IsResolve(1) /\ resolves[1].result.ok
    /\ IsResolve(2) /\ resolves[2].result = resolves[1].result /\ resolves[2].probes = <<>>
    /\ resolves[1].result.value \notin machine.runs
    /\ resolves[3].op = "clearADBPathCache"

(***************************************************************************)
(* ADBClient.executeStream                                                 *)
(***************************************************************************)

MaxStops == 2
MaxChunk == 4

\* Bytes are one-character strings for ASCII; "C3" "A9" are the two bytes of
\* the UTF-8 form of U+00E9.  Buffer.toString() decodes each chunk by itself:
\* a lead byte without its continuation, or a continuation without its lead,
\* becomes U+FFFD.
LeadByte == "C3"
ContinuationByte == "A9"
RECURSIVE toStringUtf8(_)
toStringUtf8(data) ==
    IF data = <<>> THEN <<>>
    ELSE IF data[1] = LeadByte
    THEN IF Len(data) >= 2 /\ data[2] = ContinuationByte
         THEN <<"U+00E9">> \o toStringUtf8(SubSeq(data, 3, Len(data)))
         ELSE <<"U+FFFD">> \o toStringUtf8(Tail(data))
    ELSE IF data[1] = ContinuationByte
    THEN <<"U+FFFD">> \o toStringUtf8(Tail(data))
    ELSE <<data[1]>> \o toStringUtf8(Tail(data))

\* for (const line of lines) if (line.trim()) onData(line.trim())
RECURSIVE TrimmedNonBlank(_)
TrimmedNonBlank(lines) ==
    IF lines = <<>> THEN <<>>
    ELSE (IF trim(Head(lines)) # <<>> THEN <<trim(Head(lines))>> ELSE <<>>)
             \o TrimmedNonBlank(Tail(lines))

\* the 'data' handler of child.stdout: the buffer afterwards and the calls
\* of onData
OnStdoutData(buffer, data) ==
    LET lines == split(buffer \o toStringUtf8(data), "\n")
    IN  [buffer |-> Last(lines),
         calls |-> TrimmedNonBlank(SubSeq(lines, 1, Len(lines) - 1))]

S_ERROR == <<"E", "R", "R", "O", "R", ":", " ">>
S_PROCESS_ERROR == <<"P", "R", "O", "C", "E", "S", "S", "_", "E", "R", "R", "O", "R", ":", " ">>

\* the 'data' handler of child.stderr: the calls of onData
OnStderrData(data) ==
    LET errorMessage == trim(toStringUtf8(data))
    IN  IF errorMessage # <<>> THEN <<S_ERROR \o errorMessage>> ELSE <<>>

\* the 'error' handler of the child
OnError(message) == <<S_PROCESS_ERROR \o message>>

\* child.kill('SIGTERM') of the runtime: the signal goes out while the
\* process handle is open, that is until the runtime has processed the exit
\* (a child that has died but is not yet reaped still takes the signal), and
\* sets child.killed
HandleOpen(child) == child \in {"alive", "dead"}

S_logcat == <<"l", "o", "g", "c", "a", "t">>

\* what the child writes to its stdout and to its stderr, as bytes
StreamStdoutSamples ==
    { <<>>,
      <<"a", "\n", "b", "\n">>,
      <<" ", "a", " ", "\r", "\n", "\n", " ", "b">>,
      <<LeadByte, ContinuationByte, "\n">> }
StreamStderrSamples == { <<>>, <<"x", "\n">>, <<"x", "\n", "y", "\n">> }
S_spawn_ENOENT == <<"s", "p", "a", "w", "n", " ", "a", "d", "b", " ", "E", "N", "O", "E", "N", "T">>

\* executeStream(args, onData, options): the device id is validated, the
\* child is spawned and the handlers are attached.  stdout and stderr are
\* what this child is going to write; spawned tells whether spawn found adb.
ExecuteStream(args, options, stdout, stderr, spawned) ==
    /\ instance # 0
    /\ stream = StreamIdle
    /\ LET v == validateDeviceId(options.device_id)
       IN  IF Truthy(options.device_id) /\ ~v.ok
           THEN stream' = [state |-> "threw", result |-> v]
           ELSE stream' =
                  [state |-> "streaming",
                   commandArgs |-> IF Truthy(options.device_id)
                                   THEN <<S_dash_s, v.value>> \o args ELSE args,
                   child |-> IF spawned THEN "alive" ELSE "failed",
                   killed |-> FALSE,
                   signals |-> 0,
                   stops |-> 0,
                   stdout |-> IF spawned THEN stdout ELSE <<>>,
                   stderr |-> IF spawned THEN stderr ELSE <<>>,
                   stdoutLeft |-> IF spawned THEN stdout ELSE <<>>,
                   stderrLeft |-> IF spawned THEN stderr ELSE <<>>,
                   errors |-> IF spawned THEN <<>> ELSE <<S_spawn_ENOENT>>,
                   buffer |-> <<>>,
                   onData |-> [stdout |-> <<>>, stderr |-> <<>>, error |-> <<>>]]
    /\ UNCHANGED <<pathVars, vcall, adbPath, calls, tool>>

Streaming == stream # StreamIdle /\ stream.state = "streaming"

\* a 'data' event of child.stdout with the next n bytes
StdoutData(n) ==
    /\ Streaming
    /\ n \in 1..Len(stream.stdoutLeft)
    /\ LET after == OnStdoutData(stream.buffer, SubSeq(stream.stdoutLeft, 1, n))
       IN  stream' = [stream EXCEPT
                         !.stdoutLeft = SubSeq(@, n + 1, Len(@)),
                         !.buffer = after.buffer,
                         !.onData.stdout = @ \o after.calls]
    /\ UNCHANGED <<pathVars, vcall, adbPath, calls, tool>>

\* a 'data' event of child.stderr with the next n bytes
StderrData(n) ==
    /\ Streaming
    /\ n \in 1..Len(stream.stderrLeft)
    /\ stream' = [stream EXCEPT
                     !.stderrLeft = SubSeq(@, n + 1, Len(@)),
                     !.onData.stderr = @ \o OnStderrData(SubSeq(stream.stderrLeft, 1, n))]
    /\ UNCHANGED <<pathVars, vcall, adbPath, calls, tool>>

\* the 'error' event of the child
StreamError ==
    /\ Streaming
    /\ stream.errors # <<>>
    /\ stream' = [stream EXCEPT !.errors = Tail(@),
                                !.onData.error = @ \o OnError(Head(stream.errors))]
    /\ UNCHANGED <<pathVars, vcall, adbPath, calls, tool>>

\* the child process ends, by itself or from the signal
StreamChildDies ==
    /\ Streaming
    /\ stream.child = "alive"
    /\ stream' = [stream EXCEPT !.child = "dead"]
    /\ UNCHANGED <<pathVars, vcall, adbPath, calls, tool>>

\* the runtime processes the exit of the child and closes its handle
StreamExitSeen ==
    /\ Streaming
    /\ stream.child = "dead"
    /\ stream' = [stream EXCEPT !.child = "exited"]
    /\ UNCHANGED <<pathVars, vcall, adbPath, calls, tool>>

\* Mutant: child.killed is not consulted.
StopUnguarded ==
    /\ Streaming
    /\ stream.stops < MaxStops
    /\ LET sent == HandleOpen(stream.child)
       IN  stream' = [stream EXCEPT !.stops = @ + 1,
                                    !.killed = @ \/ sent,
                                    !.signals = IF sent THEN @ + 1 ELSE @]
    /\ UNCHANGED <<pathVars, vcall, adbPath, calls, tool>>

\* the function executeStream returned is called
Stop ==
    /\ Streaming
    /\ stream.stops < MaxStops
    /\ LET sent == ~stream.killed /\ HandleOpen(stream.child)
       IN  stream' = [stream EXCEPT !.stops = @ + 1,
                                    !.killed = @ \/ sent,
                                    !.signals = IF sent THEN @ + 1 ELSE @]
    /\ UNCHANGED <<pathVars, vcall, adbPath, calls, tool>>

StreamOptions ==
    {[device_id |-> d, timeout |-> JsUndef, throw_on_error |-> JsUndef] : d \in ToolDeviceIds}

InitStream ==
    /\ vcall = VIdle /\ adbPath = ResolvedPath /\ calls = <<>> /\ tool = ToolIdle
    /\ PathIdle
    /\ stream = StreamIdle
NextStream ==
    \/ \E o \in StreamOptions, out \in StreamStdoutSamples, err \in StreamStderrSamples,
          spawned \in BOOLEAN : ExecuteStream(<<S_logcat>>, o, out, err, spawned)
    \/ \E n \in 1..MaxChunk : StdoutData(n)
    \/ \E n \in 1..MaxChunk : StderrData(n)
    \/ StreamError
    \/ StreamChildDies
    \/ StreamExitSeen
    \/ Stop
SpecStream == InitStream /\ [][NextStream]_vars

(***************************************************************************)
(* Claims about executeStream                                              *)
(***************************************************************************)

\* the lines of a text that end with a newline, in order, each trimmed, the
\* blank ones left out
NewlinesOf(text) == {i \in 1..Len(text) : text[i] = "\n"}
LineEndingAt(text, i) ==
    LET before == {j \in NewlinesOf(text) : j < i}
        start == IF before = {} THEN 1 ELSE (CHOOSE j \in before : \A k \in before : k <= j) + 1
    IN  trim(SubSeq(text, start, i - 1))
NonBlankEnds(text) == {i \in NewlinesOf(text) : LineEndingAt(text, i) # <<>>}
CompleteLines(text) ==
    [k \in 1..Cardinality(NonBlankEnds(text)) |->
        LineEndingAt(text, CHOOSE i \in NonBlankEnds(text) :
                               Cardinality({j \in NonBlankEnds(text) : j < i}) = k - 1)]

IsPrefix(s, t) == Len(s) <= Len(t) /\ s = SubSeq(t, 1, Len(s))

\* C18: the calls of onData for stdout are the trimmed, non-blank,
\* newline-terminated lines of what the child wrote to stdout, each once and
\* in order, however the bytes are split into data chunks.
C18_StdoutLines ==
    Streaming =>
        LET expected == CompleteLines(toStringUtf8(stream.stdout))
        IN  /\ IsPrefix(stream.onData.stdout, expected)
            /\ stream.stdoutLeft = <<>> => stream.onData.stdout = expected

\* the text of the messages the child wrote to stderr, line by line
ErrorLinesWritten ==
    LET lines == CompleteLines(toStringUtf8(stream.stderr))
    IN  [k \in DOMAIN lines |-> S_ERROR \o lines[k]]

\* C19: each line the child writes to stderr is delivered to onData as its
\* own call with the prefix 'ERROR:', however stderr is split into chunks,
\* and each process-level error is delivered with the prefix
\* 'PROCESS_ERROR:'.
C19_StderrLines ==
    Streaming =>
        /\ stream.stderrLeft = <<>> => stream.onData.stderr = ErrorLinesWritten
        /\ \A k \in DOMAIN stream.onData.error :
              startsWith(stream.onData.error[k], S_PROCESS_ERROR)
        /\ stream.errors = <<>> =>
              Len(stream.onData.error) = (IF stream.child = "failed" THEN 1 ELSE 0)

\* this step is a call of the stop function; it sent the signal
Stopped == Streaming /\ stream'.stops = stream.stops + 1
SignalSent == stream'.signals = stream.signals + 1

\* C20 as stated: stop sends SIGTERM if and only if the child is still alive
\* when it is called, and over any number of calls at most one signal goes
\* out.
C20_Original ==
    /\ [](Streaming => stream.signals <= 1)
    /\ [][Stopped => (SignalSent <=> stream.child = "alive")]_vars

\* C20 amended: stop sends SIGTERM if and only if no earlier call has sent it
\* and the runtime has not yet processed the end of the child (the child is
\* running, or has ended and is not yet reaped); it sends nothing after the
\* exit has been processed or when the spawn failed, and over any number of
\* calls at most one signal goes out.
C20_Amended ==
    /\ [](Streaming => stream.signals <= 1)
    /\ [][Stopped => (SignalSent <=> (stream.signals = 0
                                      /\ stream.child \in {"alive", "dead"}))]_vars

\* stop was called twice while the child kept running: one signal went out
C20_Witness ==
    /\ Streaming
    /\ stream.stops = 2 /\ stream.signals = 1 /\ stream.child = "alive"

(***************************************************************************)
(* connectDevice: the classification of the output of adb connect          *)
(***************************************************************************)

\* lit occurs in text
Mentions(text, lit) ==
    \E i \in 1..(Len(text) - Len(lit) + 1) : SubSeq(text, i, i + Len(lit) - 1) = lit

\* the step in which connectDevice takes the result of its connect command
ConnectClassified ==
    /\ Awaited("connectDevice", "connect")
    /\ Last(calls).outcome.ok
    /\ tool'.pc = "done"

\* host:port of the input, the port 5555 when none is given
HostPort(input) ==
    input.host \o <<":">> \o
        ToDecimal(IF input.port = JsUndef THEN 5555 ELSE input.port.v)

\* C21: connectDevice classifies the lower-cased stdout of the connect
\* command in this priority: 'already connected' gives a success with
\* was_already_connected = true and no instructions; else 'connected to'
\* gives a success with instructions and no was_already_connected; else
\* 'failed to connect' or 'cannot connect' throws an ADBError whose details
\* carry the troubleshooting steps; any other output throws an ADBError.
\* connection_string and device_id of a success are host:port.
C21_ConnectClassification ==
    [][ConnectClassified =>
        LET output == toLowerCase(Last(calls).outcome.value.stdout)
            r == tool'.result
            succeeded(already) ==
                /\ r.ok /\ r.value.success
                /\ r.value.connection_string = HostPort(tool.input)
                /\ r.value.device_id = HostPort(tool.input)
                /\ r.value.was_already_connected = (IF already THEN JsBool(TRUE) ELSE JsUndef)
                /\ r.value.instructions = ~already
        IN  IF Mentions(output, <<"a", "l", "r", "e", "a", "d", "y", " ", "c", "o", "n", "n", "e", "c", "t", "e", "d">>) THEN succeeded(TRUE)
            ELSE IF Mentions(output, <<"c", "o", "n", "n", "e", "c", "t", "e", "d", " ", "t", "o">>) THEN succeeded(FALSE)
            ELSE IF \/ Mentions(output, <<"f", "a", "i", "l", "e", "d", " ", "t", "o", " ", "c", "o", "n", "n", "e", "c", "t">>)
                    \/ Mentions(output, <<"c", "a", "n", "n", "o", "t", " ", "c", "o", "n", "n", "e", "c", "t">>)
            THEN ~r.ok /\ r.error = "ADBError" /\ r.details = "troubleshooting"
            ELSE ~r.ok /\ r.error = "ADBError" /\ r.details # "troubleshooting"]_vars

\* adb answered "already connected to h", which also holds 'connected to', to
\* a call without a port: the handler reported the earlier connection to h:5555
C21_Witness ==
    /\ At("connectDevice", "done")
    /\ tool.input.port = JsUndef
    /\ tool.result.ok
    /\ tool.result.value.was_already_connected = JsBool(TRUE)
    /\ tool.result.value.connection_string = <<"h", ":", "5", "5", "5", "5">>

(***************************************************************************)
(* installApp: the tests of apk_path                                       *)
(***************************************************************************)

\* the last four characters of the path are .apk, in either letter case
EndsInApk(path) ==
    /\ Len(path) >= 4
    /\ toLowerCase(SubSeq(path, Len(path) - 3, Len(path))) = <<".", "a", "p", "k">>

\* an invocation of installApp that is past fs.stat, or ended before it
InstallPastStat == tool # ToolIdle /\ tool.name = "installApp" /\ tool.pc # "stat"

\* what the invocation must be rejected with, "" when apk_path passes
ApkRejection ==
    IF ~validateFilePath(tool.input.apk_path, TRUE).ok THEN "ValidationError"
    ELSE IF tool.l.stats = "ENOENT" THEN "APK file not found"
    ELSE IF tool.l.stats = "directory" THEN "APK path must be a file"
    ELSE IF tool.l.stats # "file" THEN "rethrown"
    ELSE IF ~EndsInApk(tool.input.apk_path) THEN "File must have .apk extension"
    ELSE ""

\* C22: installApp rejects before any call of the ADB client (no
\* listDevices, no execute) whenever apk_path fails validateFilePath, does
\* not exist ('not found'), is not a regular file ('must be a file') or does
\* not end in .apk, letter case aside ('.apk extension').
C22_ApkPathChecked ==
    (InstallPastStat /\ ApkRejection # "") =>
        /\ tool.pc = "done"
        /\ ~tool.result.ok
        /\ calls = <<>>
        /\ ApkRejection = "ValidationError" => tool.result.error = "ValidationError"
        /\ ApkRejection \notin {"ValidationError", "rethrown"} =>
               tool.result.error = "ADBError" /\ tool.result.message = ApkRejection

\* a file that exists and is named a.ap was rejected for its extension with
\* no call of the client
C22_Witness ==
    /\ At("installApp", "done")
    /\ tool.input.apk_path = <<"a", ".", "a", "p">>
    /\ tool.l.stats = "file"
    /\ tool.result.message = "File must have .apk extension"
    /\ calls = <<>>

(***************************************************************************)
(* The handlers on a server that has not used adb yet: no client exists,   *)
(* the first getADBClient() constructs it.                                 *)
(***************************************************************************)

\* a machine with adb on the PATH and one without adb
FirstUseMachines ==
    {m \in Machines :
        /\ m.platform = "linux"
        /\ m.env.ANDROID_HOME = Undefined /\ m.env.ANDROID_SDK_ROOT = Undefined
        /\ m.exists = m.runs
        /\ \/ m.which.ok /\ trim(m.which.stdout) = S_path_adb /\ m.runs = {S_path_adb}
           \/ ~m.which.ok /\ m.runs = {}}

InitFirstUse ==
    /\ vcall = VIdle /\ adbPath = Null /\ calls = <<>> /\ tool = ToolIdle
    /\ stream = StreamIdle
    /\ cachedADBPath = Null
    /\ machine \in FirstUseMachines
    /\ resolves = <<>>
    /\ instance = 0
SpecFirstUse == InitFirstUse /\ [][NextTools]_vars

\* the input of the running invocation fails the validator its handler
\* applies to it
FailsValidator ==
    /\ tool # ToolIdle
    /\ \/ /\ tool.name = "getDeviceInfo"
          /\ Truthy(tool.input.device_id)
          /\ ~validateDeviceId(tool.input.device_id).ok
       \/ /\ tool.name = "connectDevice"
          /\ ~validatePort(IF tool.input.port = JsUndef THEN JsInt(DEFAULT_PORT)
                           ELSE tool.input.port).ok
       \/ /\ tool.name = "installApp"
          /\ ~validateFilePath(tool.input.apk_path, TRUE).ok
       \/ /\ tool.name \in {"uninstallApp", "getPackageInfo"}
          /\ ~validatePackageName(tool.input.package_name).ok
       \/ /\ tool.name = "client.waitForDevice"
          /\ Truthy(tool.input.deviceId)
          /\ ~validateDeviceId(tool.input.deviceId).ok

\* C23: in every tool handler and in execute and waitForDevice, when an
\* input fails its validator the ValidationError is raised before any
\* subprocess is spawned, the probes of the first getADBClient() included,
\* and the error reaches the caller.
C23_ValidationFirst ==
    /\ FailsValidator =>
          /\ tool.pc = "done"
          /\ ThrowsValidationError(tool.result)
          /\ calls = <<>>
          /\ tool.probes = <<>>
    /\ \A k \in DOMAIN calls :
          ~calls[k].prep.ok =>
              /\ calls[k].spawned = 0
              /\ ThrowsValidationError(calls[k].prep.thrown)
              /\ calls[k].pc = "done" => calls[k].outcome = calls[k].prep.thrown

(***************************************************************************)
(* The app handlers: the choice of the target device                       *)
(***************************************************************************)

\* the step in which an app handler takes the list of listDevices(false)
DevicesTaken ==
    /\ tool # ToolIdle
    /\ tool.name \in AppHandlers
    /\ Awaited(tool.name, "devices")
    /\ listDevices(Last(calls), FALSE).ok
    /\ tool'.pc # "devices"

\* the ids of the list just read, in its order
ListedIds ==
    LET devices == listDevices(Last(calls), FALSE).value
    IN  [k \in DOMAIN devices |-> devices[k].id]
IsListed(id) == \E k \in DOMAIN ListedIds : ListedIds[k] = id

\* the handler threw DeviceNotFoundError and called execute no more
RejectedNoDevice ==
    /\ tool'.pc = "done"
    /\ ~tool'.result.ok /\ tool'.result.error = "DeviceNotFoundError"
    /\ Len(calls') = Len(calls)

\* a call of execute names the device id after -s
TargetOf(call) == IF call.args # <<>> /\ call.args[1] = S_dash_s THEN call.args[2] ELSE Undefined

\* the handler went on with the device id: its next call of execute names
\* it, or it had no command to run and answered for it
GoesOnWith(id) ==
    \/ /\ tool'.pc # "done"
       /\ tool'.l.targetDevice = id
       /\ Len(calls') = Len(calls) + 1
       /\ TargetOf(Last(calls')) = id
    \/ /\ tool'.pc = "done"
       /\ tool.name = "listPackages" /\ PackageCommands(tool.input) = <<>>
       /\ tool'.result.ok /\ tool'.result.value.device_id = id
       /\ Len(calls') = Len(calls)

\* every later call of execute of the invocation that names a device names
\* the target
LaterCall ==
    /\ tool # ToolIdle /\ tool.name \in AppHandlers /\ tool.pc \notin {"stat", "devices"}
    /\ tool' # ToolIdle /\ Len(calls') = Len(calls) + 1
LaterCallsOnTarget ==
    LaterCall => TargetOf(Last(calls')) \in {tool.l.targetDevice, Undefined}

\* C24 as stated: installApp, uninstallApp, listPackages and getPackageInfo
\* take the first entry of listDevices(false) when no device_id is given and
\* throw DeviceNotFoundError when the list is empty; with a device_id they
\* throw DeviceNotFoundError unless a listed online device has that id; in
\* both error cases execute is not called, and every call of execute
\* targets an id of the list just read.
C24_Original ==
    [][/\ DevicesTaken =>
            IF tool.input.device_id = Undefined
            THEN IF Len(ListedIds) = 0 THEN RejectedNoDevice ELSE GoesOnWith(ListedIds[1])
            ELSE IF IsListed(tool.input.device_id) THEN GoesOnWith(tool.input.device_id)
                 ELSE RejectedNoDevice
       /\ LaterCall => TargetOf(Last(calls')) = tool.l.targetDevice]_vars

\* C24 amended: the same, the empty string counting as no device_id, and
\* for every call of execute that names a device.
C24_Amended ==
    [][/\ DevicesTaken =>
            IF tool.input.device_id \in {Undefined, <<>>}
            THEN IF Len(ListedIds) = 0 THEN RejectedNoDevice ELSE GoesOnWith(ListedIds[1])
            ELSE IF IsListed(tool.input.device_id) THEN GoesOnWith(tool.input.device_id)
                 ELSE RejectedNoDevice
       /\ LaterCallsOnTarget]_vars

\* uninstallApp was given e1 while the list held no online device of that
\* id: it threw DeviceNotFoundError after the one call of listDevices
C24_Witness ==
    /\ At("uninstallApp", "done")
    /\ tool.input.device_id = <<"e", "1">>
    /\ ~tool.result.ok /\ tool.result.error = "DeviceNotFoundError"
    /\ Len(calls) = 1
    /\ calls[1].site = "uninstallApp.listDevices" /\ ~calls[1].outcome.failed

(***************************************************************************)
(* listPackages: the list it builds                                        *)
(***************************************************************************)

\* the step in which listPackages takes the outcome of a listing command
ListingTaken == Awaited("listPackages", "list") /\ tool' # tool

\* the list before the step, and after it: the local variable while more
\* commands follow, the response at the end
PackagesBefore == tool.l.packages
Answered == tool'.pc = "done" /\ tool'.result.ok
PackagesAfter == IF tool'.pc = "done" THEN tool'.result.value.packages ELSE tool'.l.packages
EntriesOf(packages) == {packages[k] : k \in DOMAIN packages}

\* the names a successful listing printed: the trimmed rest of each line
\* package:<name>
PrintedNames(stdout) ==
    LET lines == split(stdout, "\n")
        rest(line) == SubSeq(line, Len(S_package_colon) + 1, Len(line))
    IN  {trim(rest(lines[k])) : k \in {j \in DOMAIN lines :
            /\ Len(lines[j]) > Len(S_package_colon)
            /\ SubSeq(lines[j], 1, Len(S_package_colon)) = S_package_colon
            /\ "\r" \notin {lines[j][i] : i \in DOMAIN lines[j]}}}

PassesFilter(name) == ~Truthy(tool.input.filter) \/ Mentions(name, tool.input.filter)

\* the listing of the step adds the printed names that pass the filter and
\* are not yet in the list, with the type of its command; the entries
\* already in the list stay as they are
ListingAdded(stdout) ==
    LET before == EntriesOf(PackagesBefore)
        after == EntriesOf(PackagesAfter)
        known == {e.package_name : e \in before}
    IN  after = before \cup
            {[package_name |-> n, type |-> tool.l.commands[1].type] :
                n \in {x \in PrintedNames(stdout) : PassesFilter(x) /\ x \notin known}}

\* the response: no name twice, ascending names, the counts
WellFormedAnswer ==
    LET r == tool'.result.value
        list == r.packages
    IN  /\ \A i, j \in DOMAIN list : i < j =>
              /\ list[i].package_name # list[j].package_name
              /\ ~LocaleLess(list[j].package_name, list[i].package_name)
        /\ \A i \in DOMAIN list : PassesFilter(list[i].package_name)
        /\ r.total = Len(list)
        /\ r.total = r.third_party_count + r.system_count + r.disabled_count
        /\ r.third_party_count = Cardinality({i \in DOMAIN list : list[i].type = "third-party"})
        /\ r.system_count = Cardinality({i \in DOMAIN list : list[i].type = "system"})
        /\ r.disabled_count = Cardinality({i \in DOMAIN list : list[i].type = "disabled"})

\* the commands run in the order third-party, system, disabled
TypeRank(type) == CASE type = "third-party" -> 1 [] type = "system" -> 2 [] type = "disabled" -> 3
CommandsInOrder ==
    \A i, j \in DOMAIN tool.l.commands :
        i < j => TypeRank(tool.l.commands[i].type) < TypeRank(tool.l.commands[j].type)

\* C25 as stated: the listPackages result has no two entries of one
\* package_name, is sorted ascending by package_name, holds only names
\* that include the filter, and total = packages.length = third_party_count
\* + system_count + disabled_count; a package of several listings keeps the
\* type of the first listing in the order third-party, system, disabled; a
\* failed listing command contributes no entries and raises no error.
C25_Original ==
    [][ListingTaken =>
          LET o == Last(calls).outcome
          IN  /\ CommandsInOrder
              /\ Answered => WellFormedAnswer
              /\ IF o.ok /\ o.value.success
                 THEN (tool'.pc = "done" => tool'.result.ok) /\ ListingAdded(o.value.stdout)
                 ELSE (tool'.pc = "done" => tool'.result.ok) /\ ListingAdded(<<>>)]_vars

\* C25 amended: the same, where a listing command that execute reports as a
\* failed result contributes no entries and raises no error, and a listing
\* command for which execute throws (time-out, device not found, device
\* offline) ends listPackages with that error.
C25_Amended ==
    [][ListingTaken =>
          LET o == Last(calls).outcome
          IN  /\ CommandsInOrder
              /\ Answered => WellFormedAnswer
              /\ IF ~o.ok THEN tool'.pc = "done" /\ tool'.result = o
                 ELSE /\ tool'.pc = "done" => tool'.result.ok
                      /\ ListingAdded(IF o.value.success THEN o.value.stdout ELSE <<>>)]_vars

\* a.b came with the third-party listing and again, after d.o, with the
\* system listing: the response holds a.b as third-party before d.o
C25_Witness ==
    /\ At("listPackages", "done")
    /\ tool.result.ok
    /\ tool.result.value.packages =
           <<[package_name |-> <<"a", ".", "b">>, type |-> "third-party"],
             [package_name |-> <<"d", ".", "o">>, type |-> "system"]>>

(***************************************************************************)
(* uninstallApp: the classification of the output                          *)
(***************************************************************************)

\* the step in which uninstallApp takes the result of its uninstall command
UninstallClassified ==
    /\ Awaited("uninstallApp", "uninstall")
    /\ Last(calls).outcome.ok
    /\ tool'.pc = "done"

\* the arguments of the uninstall command hold the flag -k
KeepsData(commandArgs) == \E k \in DOMAIN commandArgs : commandArgs[k] = <<"-", "k">>

\* C26: uninstallApp classifies the lower-cased stdout in this priority:
\* 'success' gives a success with data_kept = keep_data; else 'failure' or
\* 'failed' throws PackageNotFoundError when the output mentions 'not
\* installed' or 'unknown package' (also when it mentions
\* delete_failed_internal_error as well), else ADBError 'Internal error during
\* uninstallation' when it mentions delete_failed_internal_error, else
\* ADBError 'Failed to uninstall package'; any other output throws an
\* ADBError. The flag -k is passed exactly when keep_data is true.
C26_UninstallClassification ==
    [][UninstallClassified =>
        LET output == toLowerCase(Last(calls).outcome.value.stdout)
            keep_data == tool.input.keep_data = JsBool(TRUE)
            r == tool'.result
        IN  /\ KeepsData(Last(calls).prep.commandArgs) <=> keep_data
            /\ IF Mentions(output, <<"s", "u", "c", "c", "e", "s", "s">>)
               THEN r.ok /\ r.value.success /\ r.value.data_kept = keep_data
               ELSE IF Mentions(output, <<"f", "a", "i", "l", "u", "r", "e">>) \/ Mentions(output, <<"f", "a", "i", "l", "e", "d">>)
               THEN IF \/ Mentions(output, <<"n", "o", "t", " ", "i", "n", "s", "t", "a", "l", "l", "e", "d">>)
                       \/ Mentions(output, <<"u", "n", "k", "n", "o", "w", "n", " ", "p", "a", "c", "k", "a", "g", "e">>)
                    THEN ~r.ok /\ r.error = "PackageNotFoundError"
                    ELSE IF Mentions(output, <<"d", "e", "l", "e", "t", "e", "_", "f", "a", "i", "l", "e", "d", "_", "i", "n", "t", "e", "r", "n", "a", "l", "_", "e", "r", "r", "o", "r">>)
                    THEN ~r.ok /\ r.error = "ADBError"
                         /\ r.message = "Internal error during uninstallation"
                    ELSE ~r.ok /\ r.error = "ADBError"
                         /\ r.message = "Failed to uninstall package"
               ELSE ~r.ok /\ r.error = "ADBError"]_vars

\* uninstallApp ran with keep_data and adb answered that the package is not
\* installed, naming DELETE_FAILED_INTERNAL_ERROR too: PackageNotFoundError
C26_Witness ==
    /\ At("uninstallApp", "done")
    /\ tool.input.keep_data = JsBool(TRUE)
    /\ Len(calls) = 2 /\ calls[2].site = "uninstallApp.uninstall"
    /\ ~tool.result.ok /\ tool.result.error = "PackageNotFoundError"

(***************************************************************************)
(* installApp, uninstallApp, connectDevice: success and the subprocess     *)
(***************************************************************************)

\* the execute calls whose output the three handlers classify
ClassifiedSites == {"installApp.install", "uninstallApp.uninstall", "connectDevice.connect"}

\* the step in which a handler takes the outcome of its classified command
CommandTaken ==
    /\ tool # ToolIdle /\ tool.pc \in {"install", "uninstall", "connect"}
    /\ calls # <<>> /\ Last(calls).pc = "done"
    /\ Last(calls).site \in ClassifiedSites
    /\ tool' # tool

\* C27: installApp, uninstallApp and connectDevice answer success = true only
\* when the execute result of their adb command has success = true; an
\* execute result with success = false ends in a thrown error, whatever its
\* stdout holds.
C27_SuccessNeedsSuccess ==
    [][CommandTaken =>
        LET o == Last(calls).outcome
        IN  (o.ok /\ ~o.value.success) => (tool'.pc = "done" /\ ~tool'.result.ok)]_vars

(***************************************************************************)
(* The tokens of the command line                                          *)
(***************************************************************************)

\* the calls of execute that reached exec and were made by a tool handler or
\* a client operation
HandlerCommands ==
    {k \in DOMAIN calls : calls[k].site # "direct" /\ calls[k].prep.ok}

\* C28: every token that execute joins with spaces into the command string
\* is free of the denylist metacharacters, for every call made by a tool
\* handler or a client operation.
C28_TokensClean ==
    \A k \in HandlerCommands :
        \A n \in DOMAIN calls[k].prep.commandArgs :
            ~HasAny(calls[k].prep.commandArgs[n], Denylist)

(***************************************************************************)
(* Calls of getInstance and resetInstance among calls of the resolver      *)
(***************************************************************************)

\* ADBClient.getInstance() called from outside the handlers: the call is
\* logged with what it returned and what the resolver probed
GetInstance ==
    \E client \in {Client} :
    /\ Len(resolves) < MaxResolves
    /\ instance' = client.instance
    /\ adbPath' = client.adbPath
    /\ cachedADBPath' = client.cache
    /\ resolves' = Append(resolves, [op |-> "getInstance", result |-> client.result,
                                     probes |-> client.probes,
                                     constructed |-> client.constructed])
    /\ UNCHANGED <<machine, stream, vcall, calls, tool>>

\* ADBClient.resetInstance(): the static field is null again, and with it
\* there is no path of a current client
ResetInstance ==
    /\ Len(resolves) < MaxResolves
    /\ instance' = 0
    /\ adbPath' = Null
    /\ resolves' = Append(resolves, [op |-> "resetInstance"])
    /\ UNCHANGED <<cachedADBPath, machine, stream, vcall, calls, tool>>

InitClient == InitFirstUse
NextClient ==
    \/ GetInstance
    \/ ResetInstance
    \/ ResolveADBPath
    \/ ClearADBPathCache
    \/ AdbRemoved
    \/ AdbInstalled
SpecClient == InitClient /\ [][NextClient]_vars

\* the step is a call of op
Called(op) == Len(resolves') = Len(resolves) + 1 /\ Last(resolves').op = op

\* C29: over any sequence of getInstance, resetInstance, resolveADBPath and
\* clearADBPathCache calls, the getInstance calls between two resetInstance
\* calls return the same client, whose adbPath never changes after
\* construction; getInstance resolves the path only when no instance exists;
\* a getInstance call that throws because adb is not found leaves no
\* instance, so a later call tries again.
C29_Singleton ==
    [][/\ (instance # 0 /\ ~Called("resetInstance")) =>
              instance' = instance /\ adbPath' = adbPath
       /\ Called("getInstance") =>
              LET call == Last(resolves')
                  r == resolveADBPath(cachedADBPath, machine)
              IN  IF instance # 0
                  THEN /\ call.result = Returns(instance)
                       /\ call.probes = <<>>
                       /\ cachedADBPath' = cachedADBPath
                  ELSE /\ call.result.ok = r.result.ok
                       /\ call.probes = r.probes
                       /\ IF call.result.ok
                          THEN /\ instance' = call.result.value /\ instance' # 0
                               /\ adbPath' = r.result.value
                          ELSE /\ instance' = 0
                               /\ call.result.error = "ADBError"]_vars

\* getInstance gave a client, the cache of the resolver was cleared, and
\* getInstance gave the same client, which still holds its path
C29_Witness ==
    /\ Len(resolves) = 3
    /\ resolves[1].op = "getInstance" /\ resolves[1].result.ok
    /\ resolves[2].op = "clearADBPathCache"
    /\ resolves[3].op = "getInstance" /\ resolves[3].result = resolves[1].result
    /\ instance = resolves[1].result.value
    /\ cachedADBPath = Null /\ adbPath = S_path_adb

(***************************************************************************)
(* executeStream: what is left in the line buffer                          *)
(***************************************************************************)

\* The event loop delivers the pending events of the child: its data, its
\* errors and its exit.  Nothing makes the child end or the caller stop it.
FairSpecStream ==
    /\ SpecStream
    /\ WF_vars(\E n \in 1..MaxChunk : StdoutData(n))
    /\ WF_vars(\E n \in 1..MaxChunk : StderrData(n))
    /\ WF_vars(StreamError)
    /\ WF_vars(StreamExitSeen)

\* the child has ended and all it wrote to stdout has come in: its stdout
\* is closed
StdoutClosed ==
    /\ Streaming
    /\ stream.child \in {"dead", "exited"}
    /\ stream.stdoutLeft = <<>>

\* every non-blank line the child wrote, the last one with or without a
\* newline at its end, has been a call of onData, and the buffer holds no
\* text
AllLinesDelivered ==
    /\ Streaming
    /\ Len(stream.onData.stdout)
           = Len(TrimmedNonBlank(split(toStringUtf8(stream.stdout), "\n")))
    /\ trim(stream.buffer) = <<>>

\* C30: once the child of executeStream has closed its stdout, every
\* non-blank line it wrote has been passed to onData, a final line without
\* a newline included; no output stays in the line buffer for ever.
C30_BufferFlushed == StdoutClosed ~> AllLinesDelivered

====
